---------------------------- MODULE Spec2Model ----------------------------
(***************************************************************************)
(* Model of the token side of ts-api-helper: the JSON web key set cache    *)
(* (src/token/json_web_key/key_set_cache.rs), the Token extractor          *)
(* (src/token/extractor.rs) that reads it from concurrent request tasks,   *)
(* and the time policy of the Jwt extractor (src/jwt/mod.rs).              *)
(*                                                                         *)
(* Time is counted in hours since the Unix epoch.  A task runs from one    *)
(* suspension point to the next in one step; wall-clock time passes only   *)
(* while every task is idle, waits for a response, or waits for a lock.    *)
(***************************************************************************)
EXTENDS Integers, Sequences, FiniteSets, TLC

----------------------------------------------------------------------------
(* Bounds of the model *)

\* The request tasks that share one cache.
Tasks == {"t1", "t2"}

\* The key ids that occur in tokens and in key set documents.
Kids == {"k1", "k2"}

\* The clock ticks up to MaxTime hours, and then jumps once by RetainHours.
MaxTime == 8

\* One tick of the clock, in hours.
TickStep == 4

\* A compact token has at most MaxDots '.' characters.
MaxDots == 3

\* The clock and the times in claims are between 0 and MaxClaimTime.
MaxClaimTime == 2

\* A key set document holds at most MaxKeys keys.
MaxKeys == 2

\* The claims nbf and exp lie within MaxOffset milliseconds of now - 5 min,
\* now and now + 5 min.
MaxOffset == 1

\* `now` of the Jwt extractor is one of the first MaxNow multiples of 5 min.
MaxNow == 3

----------------------------------------------------------------------------
(* Program constants *)

\* SignedDuration::from_hours(4): the refresh rate limit.
RefreshHours == 4

\* SignedDuration::from_hours(24): the life time of a cache entry.
RetainHours == 24

\* Timestamp::UNIX_EPOCH, the initial last_refresh.
UNIX_EPOCH == 0

\* 1000 * 60 * 5: the leeway of the Jwt extractor, in milliseconds.
LeewayMs == 300000

\* A HashMap slot that holds no key.
NoKey == -1

\* No task: the cache lock has no writer.
NoTask == "none"

\* No key set document.
NoDoc == << >>

VARIABLES
    clock,         \* Timestamp::now(), in hours
    origin,        \* the kids of the keys the JWKS endpoint serves
    cache,         \* JsonWebKeySetCache.cache: kid -> retrieved, or NoKey
    last_refresh,  \* JsonWebKeySetCache.last_refresh
    readers,       \* the tasks that hold the cache lock shared
    writer,        \* the task that holds the cache lock exclusively
    pc,            \* each task's position
    kid,           \* token.header.kid of the task's request
    now,           \* `now` of the task's call of refresh
    fetched,       \* `jwks` of the task's call of refresh
    rres,          \* how the task's call of refresh ended
    lookups,       \* the cache lookups of the task's request
    refreshes,     \* the calls of refresh of the task's request
    gets,          \* the JWKS GETs of the task's request
    revGet,        \* whether the task's request issued its revocation GET
    result,        \* the outcome of the task's last request
    okT,           \* the latest `now` of a refresh that completed, or NoKey
    hdr,           \* the Authorization header of the task's request
    sigRes,        \* what verify returned to the task's request
    revStatus,     \* what the revocation GET of the task's request returned
    revoked,       \* whether the revocation endpoint holds the tokens' tid
    pNow, pNbf, pExp, pOut,  \* the time policy of the Jwt extractor
    input, output, \* the arguments and the result of a call of a function
    challenges,    \* the challenge store: challenge bytes -> Challenge
    keys,          \* the public key store: raw_id -> PersistedPublicKey
    cer,           \* the call of PublicKeyCredential::verify under way
    queried,       \* the stores the call under way has queried
    consumed,      \* the challenges a verification has succeeded with
    position,      \* the .await each task of the lock protocol has reached
    cacheLock,     \* the RwLock of JsonWebKeySetCache.cache
    lastRefreshLock \* the RwLock of JsonWebKeySetCache.last_refresh

cacheVars == <<cache, last_refresh, readers, writer>>
taskVars == <<pc, kid, now, fetched, rres, lookups, refreshes, gets, revGet,
              result>>
seenVars == <<hdr, sigRes, revStatus>>
policyVars == <<pNow, pNbf, pExp, pOut>>
callVars == <<input, output>>
storeVars == <<challenges, keys>>
webVars == <<storeVars, cer, queried, consumed>>
lockVars == <<position, cacheLock, lastRefreshLock>>
otherVars == <<revoked, policyVars, callVars, webVars, lockVars>>
vars == <<clock, origin, cacheVars, taskVars, okT, seenVars, otherVars>>

----------------------------------------------------------------------------
(* Key set documents *)

\* One JWK of a document: "ok" converts to a verifying key, "bad" fails
\* VerifyingJsonWebKey::try_from, "unk" has a kty, crv or alg serde rejects.
Entries == [kid : Kids, st : {"ok", "bad", "unk"}]

RECURSIVE SeqsUpTo(_)
SeqsUpTo(n) ==
    IF n = 0 THEN {<< >>}
    ELSE LET shorter == SeqsUpTo(n - 1)
         IN  shorter \cup {Append(s, e) : s \in shorter, e \in Entries}

\* JsonWebKeySet: a list of keys, no kid twice.
Docs ==
    {d \in SeqsUpTo(MaxKeys) :
        \A i, j \in 1..Len(d) : i # j => d[i].kid # d[j].kid}

DocKids(d) == {d[i].kid : i \in 1..Len(d)}

\* Response::json::<JsonWebKeySet>(): the body parses unless an entry has a
\* tag the enums Algorithm, JsonWebKeyParameters or Curve do not know.
ParsesAsJwks(d) == \A i \in 1..Len(d) : d[i].st # "unk"

\* VerifyingJsonWebKey::try_from(jwk) succeeds.
TryFromOk(e) == e.st = "ok"

----------------------------------------------------------------------------
(* JsonWebKeySetCache::refresh *)

\* last_refresh.duration_until(now) < SignedDuration::from_hours(4)
RateLimited(last, n) == n - last < RefreshHours

\* A loop that inserts nothing: what C5_UsableAfterRefresh must tell from
\* InsertKeys.
InsertNothing(c, d, at) == [cache |-> c, err |-> FALSE]

\* The for loop over jwks.keys: inserts until the first entry that does not
\* convert, where `?` leaves the function.  `at` is Timestamp::now().
RECURSIVE InsertKeys(_, _, _)
InsertKeys(c, d, at) ==
    IF d = << >> THEN [cache |-> c, err |-> FALSE]
    ELSE IF ~TryFromOk(Head(d)) THEN [cache |-> c, err |-> TRUE]
    ELSE InsertKeys([c EXCEPT ![Head(d).kid] = at], Tail(d), at)

\* A retain that drops nothing: what C8_AfterRefresh must tell from Retain.
RetainAll(c, n) == c

\* cache.retain(|_, key| key.retrieved.duration_until(now) < 24 h)
Retain(c, n) ==
    [k \in Kids |-> IF c[k] # NoKey /\ n - c[k] < RetainHours THEN c[k] ELSE NoKey]


----------------------------------------------------------------------------
(* Token::from_request_parts: the decisions of the extractor *)

\* The Authorization headers a request may carry; "none" is no header and
\* "opaque" a value HeaderValue::to_str rejects.
HeaderValues == {"none", "opaque", "basic abc", "Bearer jws", "bearer junk", "bearer jws"}

\* header.starts_with("bearer ")
StartsWithBearer(h) == h \in {"bearer junk", "bearer jws"}

\* JsonWebToken::deserialize(&header[7..]) returns Some.
Deserializes(h) == h = "bearer jws"

\* Lines 52-66: the rejection of the header, or "pass".
CheckHeader(h) ==
    IF h \in {"none", "opaque"} THEN "401_header"
    ELSE IF ~StartsWithBearer(h) THEN "401_header"
    ELSE IF ~Deserializes(h) THEN "401_parse"
    ELSE "pass"

\* A refresh on every request: what C4_LookupRefreshRetry must tell from
\* NeedsRefresh.
NeedsRefreshAlways(contains) == TRUE

\* if !cache_contains_key { refresh }
NeedsRefresh(contains) == ~contains

\* Checks that do not stop at a missing key: what C9_ShortCircuit must tell
\* from CheckToken.
CheckTokenLate(found, sig, expired) ==
    IF sig = "err" THEN "500_verify"
    ELSE IF sig = "bad" THEN "401_sig"
    ELSE IF expired THEN "401_expired"
    ELSE "pass"

\* Checks that answer 401 to a verify that failed to run: what
\* C13_OutcomesApart must tell from CheckToken.
CheckTokenErrAsRejected(found, sig, expired) ==
    IF ~found THEN "401_kid"
    ELSE IF sig # "good" THEN "401_sig"
    ELSE IF expired THEN "401_expired"
    ELSE "pass"

\* Lines 81-92: the checks made under the second shared lock, in their order.
\* sig is what verify returns: "good" Ok(true), "bad" Ok(false), "err" Err.
CheckToken(found, sig, expired) ==
    IF ~found THEN "401_kid"
    ELSE IF sig = "err" THEN "500_verify"
    ELSE IF sig = "bad" THEN "401_sig"
    ELSE IF expired THEN "401_expired"
    ELSE "pass"

\* Lines 97-119: the answer of the revocation endpoint, "error" being a
\* request that failed to send.
RevocationStatuses == {"404", "200", "503", "error"}

\* A reading of the status that takes everything but 200 as not revoked: what
\* C11_RevocationOutcome must tell from CheckRevocation.
CheckRevocationLenient(status) ==
    IF status = "200" THEN "401_revoked" ELSE "accepted"

CheckRevocation(status) ==
    CASE status = "404" -> "accepted"
      [] status = "200" -> "401_revoked"
      [] status = "error" -> "500_revocation"
      [] OTHER -> "500_revocation"

\* ErrorResponse::unauthenticated and ErrorResponse::internal_server_error:
\* the status code of the response to a request that ended with r.
HttpStatus(r) ==
    IF r \in {"401_header", "401_parse", "401_kid", "401_sig", "401_expired",
              "401_revoked"} THEN 401
    ELSE IF r \in {"500_refresh", "500_verify", "500_revocation"} THEN 500
    ELSE 200

Results ==
    {"none", "401_header", "401_parse", "401_kid", "401_sig", "401_expired",
     "401_revoked", "500_refresh", "500_verify", "500_revocation", "accepted"}

----------------------------------------------------------------------------
(* The state after construction *)

EmptyCache == [k \in Kids |-> NoKey]

\* JsonWebKeySetCache::new, no request yet.  The process starts RefreshHours
\* after the epoch: no deployment runs within four hours of 1970-01-01.
\* The tasks that share one cache in the lock protocol.
LockTasks == {"q1", "q2", "q3"}

\* A tokio RwLock nobody holds or waits for: the tasks holding it shared,
\* the task holding it exclusively, and the waiters in the order they came.
FreeLock == [readers |-> {}, writer |-> NoTask, queue |-> << >>]

\* No task runs the lock protocol.
LocksIdle ==
    /\ position = [t \in LockTasks |-> [pc |-> "idle", call |-> "none"]]
    /\ cacheLock = FreeLock
    /\ lastRefreshLock = FreeLock

InitMain ==
    /\ LocksIdle
    /\ clock = UNIX_EPOCH + RefreshHours
    /\ origin \in SUBSET Kids
    /\ cache = EmptyCache
    /\ last_refresh = UNIX_EPOCH
    /\ readers = {}
    /\ writer = NoTask
    /\ pc = [t \in Tasks |-> "idle"]
    /\ kid = [t \in Tasks |-> "none"]
    /\ now = [t \in Tasks |-> UNIX_EPOCH]
    /\ fetched = [t \in Tasks |-> NoDoc]
    /\ rres = [t \in Tasks |-> "none"]
    /\ lookups = [t \in Tasks |-> 0]
    /\ refreshes = [t \in Tasks |-> 0]
    /\ gets = [t \in Tasks |-> 0]
    /\ revGet = [t \in Tasks |-> FALSE]
    /\ result = [t \in Tasks |-> "none"]
    /\ okT = NoKey
    /\ hdr = [t \in Tasks |-> "none"]
    /\ sigRes = [t \in Tasks |-> "none"]
    /\ revStatus = [t \in Tasks |-> "none"]
    /\ revoked = FALSE

\* No call of a function is under way.
NoCall == [fn |-> "none"]

\* No call has returned.
NoResult == [res |-> "none"]

CallsIdle ==
    /\ input = NoCall
    /\ output = NoResult

PolicyIdle ==
    /\ pNow = LeewayMs
    /\ pNbf = 0
    /\ pExp = 0
    /\ pOut = "none"

\* The names of the challenges and of the credentials.
ChallengeBytes == {"c1", "c2"}
RawIds == {"r1", "r2"}

NoChallenge == [found |-> FALSE]
NoPublicKey == [found |-> FALSE]

\* The signing input of an assertion: authenticator data, then the hash of
\* the client data bytes, which are the fields in the encoding `enc`.
Sha256(bytes) == [sha256 |-> bytes]

ClientDataBytes(type, challenge, origin_, enc) ==
    [type |-> type, challenge |-> challenge, origin |-> origin_, enc |-> enc]

Message(auth, hash) == [auth |-> auth, hash |-> hash]

NoMessage == Message("none", Sha256(ClientDataBytes("none", "none", "none", "none")))

\* The bytes of a signature: one made with the private key of `by` over
\* `over`, or bytes that are no signature.
NoSignature == [form |-> "none", by |-> "none", over |-> NoMessage]
JunkSignature == [form |-> "junk", by |-> "none", over |-> NoMessage]
SignatureBy(k, message) == [form |-> "sig", by |-> k, over |-> message]

\* PublicKeyCredential with its response, as deserialized.
Credential(kind, type, rp, c, o, handle, raw, enc, sig, pk, alg) ==
    [kind |-> kind, type |-> type, rp_hash |-> rp, challenge |-> c,
     origin |-> o, user_handle |-> handle, raw_id |-> raw, enc |-> enc,
     signature |-> sig, public_key |-> pk, alg |-> alg]

NoCredential ==
    Credential("none", "none", Sha256("none"), "none", "none", "none", "none",
               "none", NoSignature, "none", "none")

\* No credential is being verified.
NoCeremony ==
    [pc |-> "idle", cred |-> NoCredential, bearer |-> "none", result |-> "none"]

\* Empty stores, no call of verify.
WebIdle ==
    /\ challenges = [c \in ChallengeBytes |-> NoChallenge]
    /\ keys = [r \in RawIds |-> NoPublicKey]
    /\ cer = NoCeremony
    /\ queried = {}
    /\ consumed = {}

Init == InitMain /\ PolicyIdle /\ CallsIdle /\ WebIdle

----------------------------------------------------------------------------
(* The environment *)

\* A task that can take its next step without waiting for a response or a lock.
Runnable(t) ==
    \/ pc[t] \in {"lookup1", "lookup2"} /\ writer = NoTask
    \/ pc[t] = "refresh"
    \/ pc[t] = "apply" /\ writer = NoTask /\ readers = {}
    \/ pc[t] \in {"store", "done"}

\* No response waits to leave: a response leaves before anything else happens.
Quiet == \A t \in Tasks : pc[t] # "done"

\* Time passes.
Tick ==
    /\ \A t \in Tasks : ~Runnable(t)
    /\ clock + TickStep <= MaxTime
    /\ clock' = clock + TickStep
    /\ UNCHANGED <<origin, cacheVars, taskVars, okT, otherVars, seenVars>>

\* The instant RetainHours after the last tick.
LateTime == MaxTime + RetainHours

\* A long time passes: the clock jumps to LateTime.
Sleep ==
    /\ \A t \in Tasks : ~Runnable(t)
    /\ clock < LateTime
    /\ clock' = LateTime
    /\ UNCHANGED <<origin, cacheVars, taskVars, okT, otherVars, seenVars>>

\* The issuer publishes a key or withdraws one.
Publish ==
    /\ \A t \in Tasks : ~Runnable(t)
    /\ \E k \in Kids :
          origin' = IF k \in origin THEN origin \ {k} ELSE origin \cup {k}
    /\ UNCHANGED <<clock, cacheVars, taskVars, okT, otherVars, seenVars>>


\* The tokens' tid is revoked: the revocation endpoint holds it from now on.
EndpointRevokes ==
    /\ \A t \in Tasks : ~Runnable(t)
    /\ ~revoked
    /\ revoked' = TRUE
    /\ UNCHANGED <<clock, origin, cacheVars, taskVars, okT, seenVars, policyVars,
                   callVars, webVars, lockVars>>

----------------------------------------------------------------------------
(* Token::from_request_parts and the call of refresh it makes *)

\* A request arrives: lines 52-66.  A header that is rejected ends it here.
Begin(t) ==
    /\ Quiet
    /\ pc[t] = "idle"
    /\ \E h \in HeaderValues, k \in Kids :
          LET r == CheckHeader(h) IN
          /\ pc' = [pc EXCEPT ![t] = IF r = "pass" THEN "lookup1" ELSE "done"]
          /\ kid' = [kid EXCEPT ![t] = IF r = "pass" THEN k ELSE "none"]
          /\ result' = [result EXCEPT ![t] = IF r = "pass" THEN "none" ELSE r]
          /\ hdr' = [hdr EXCEPT ![t] = h]
    /\ UNCHANGED <<clock, origin, cacheVars, okT, otherVars, sigRes, revStatus, now, fetched, rres,
                   lookups, refreshes, gets, revGet>>

\* The response has left: the task is free for its next request.
Reset(t) ==
    /\ pc[t] = "done"
    /\ pc' = [pc EXCEPT ![t] = "idle"]
    /\ kid' = [kid EXCEPT ![t] = "none"]
    /\ result' = [result EXCEPT ![t] = "none"]
    /\ rres' = [rres EXCEPT ![t] = "none"]
    /\ lookups' = [lookups EXCEPT ![t] = 0]
    /\ refreshes' = [refreshes EXCEPT ![t] = 0]
    /\ gets' = [gets EXCEPT ![t] = 0]
    /\ revGet' = [revGet EXCEPT ![t] = FALSE]
    /\ hdr' = [hdr EXCEPT ![t] = "none"]
    /\ sigRes' = [sigRes EXCEPT ![t] = "none"]
    /\ revStatus' = [revStatus EXCEPT ![t] = "none"]
    /\ UNCHANGED <<clock, origin, cacheVars, okT, otherVars, now, fetched>>

\* Lines 68-73: the first lookup, under a shared lock that is dropped at once.
Lookup1(t) ==
    /\ Quiet
    /\ pc[t] = "lookup1"
    /\ writer = NoTask
    /\ lookups' = [lookups EXCEPT ![t] = @ + 1]
    /\ pc' = [pc EXCEPT ![t] =
                IF NeedsRefresh(cache[kid[t]] # NoKey) THEN "refresh" ELSE "lookup2"]
    /\ UNCHANGED <<clock, origin, cacheVars, okT, otherVars, seenVars, kid, now, fetched,
                   rres, refreshes, gets, revGet, result>>

\* refresh, lines 37-45: `now` is taken, last_refresh is read under its
\* shared lock, and the call either returns Ok or sends the GET.
RefreshGuard(t) ==
    /\ Quiet
    /\ pc[t] = "refresh"
    /\ refreshes' = [refreshes EXCEPT ![t] = @ + 1]
    /\ now' = [now EXCEPT ![t] = clock]
    /\ IF RateLimited(last_refresh, clock)
       THEN /\ rres' = [rres EXCEPT ![t] = "limited"]
            /\ pc' = [pc EXCEPT ![t] = "lookup2"]
            /\ gets' = gets
       ELSE /\ rres' = rres
            /\ pc' = [pc EXCEPT ![t] = "fetch"]
            /\ gets' = [gets EXCEPT ![t] = @ + 1]
    /\ UNCHANGED <<clock, origin, cacheVars, okT, otherVars, seenVars, kid, fetched,
                   lookups, revGet, result>>

\* The request ends with `r`; what belonged to the call of refresh is dropped.
Finish(t, r) ==
    /\ pc' = [pc EXCEPT ![t] = "done"]
    /\ result' = [result EXCEPT ![t] = r]
    /\ kid' = kid
    /\ now' = [now EXCEPT ![t] = UNIX_EPOCH]
    /\ fetched' = [fetched EXCEPT ![t] = NoDoc]

\* The bodies the endpoint may answer with: the published keys in some order.
Bodies(published) == {d \in Docs : DocKids(d) = published}

\* A failed fetch that empties the cache: what C7_FetchErrorKeepsCache must
\* tell from FetchError.
FetchErrorPoisons(t) ==
    /\ Quiet
    /\ pc[t] = "fetch"
    /\ cache' = [k \in Kids |-> NoKey]
    /\ rres' = [rres EXCEPT ![t] = "err_fetch"]
    /\ Finish(t, "500_refresh")
    /\ UNCHANGED <<clock, origin, last_refresh, readers, writer, okT, otherVars, seenVars,
                   lookups, refreshes, gets, revGet>>

\* Line 45: send() fails, or the body is no JsonWebKeySet.  `?` returns the
\* error, which the extractor turns into a 500 (lines 74-78).
FetchError(t) ==
    /\ Quiet
    /\ pc[t] = "fetch"
    /\ \E sent \in BOOLEAN :
          ~sent \/ \E d \in Bodies(origin) : ~ParsesAsJwks(d)
    /\ rres' = [rres EXCEPT ![t] = "err_fetch"]
    /\ Finish(t, "500_refresh")
    /\ UNCHANGED <<clock, origin, cacheVars, okT, otherVars, seenVars, lookups, refreshes,
                   gets, revGet>>

\* Line 45: the GET answers with a document that parses.
FetchBody(t) ==
    /\ Quiet
    /\ pc[t] = "fetch"
    /\ \E d \in Bodies(origin) :
          /\ ParsesAsJwks(d)
          /\ fetched' = [fetched EXCEPT ![t] = d]
    /\ pc' = [pc EXCEPT ![t] = "apply"]
    /\ UNCHANGED <<clock, origin, cacheVars, okT, otherVars, seenVars, kid, now, rres,
                   lookups, refreshes, gets, revGet, result>>

\* Lines 47-63: under the exclusive lock the keys are inserted and the old
\* entries dropped.  A key that does not convert ends the call inside the loop.
Apply(t) ==
    /\ Quiet
    /\ pc[t] = "apply"
    /\ writer = NoTask
    /\ readers = {}
    /\ LET ins == InsertKeys(cache, fetched[t], clock) IN
       IF ins.err
       THEN /\ cache' = ins.cache
            /\ rres' = [rres EXCEPT ![t] = "err_jwk"]
            /\ Finish(t, "500_refresh")
            /\ writer' = writer
       ELSE /\ cache' = Retain(ins.cache, now[t])
            /\ writer' = t
            /\ pc' = [pc EXCEPT ![t] = "store"]
            /\ UNCHANGED <<rres, result, kid, now, fetched>>
    /\ UNCHANGED <<clock, origin, last_refresh, readers, okT, otherVars, seenVars,
                   lookups, refreshes, gets, revGet>>

\* Lines 65-68: last_refresh is stored and both locks are dropped.
Store(t) ==
    /\ Quiet
    /\ pc[t] = "store"
    /\ writer = t
    /\ last_refresh' = now[t]
    /\ writer' = NoTask
    /\ okT' = IF now[t] > okT THEN now[t] ELSE okT
    /\ rres' = [rres EXCEPT ![t] = "applied"]
    /\ pc' = [pc EXCEPT ![t] = "lookup2"]
    /\ UNCHANGED <<clock, origin, cache, readers, otherVars, seenVars, kid, now, fetched,
                   lookups, refreshes, gets, revGet, result>>

\* Lines 81-103: the second lookup, verify and is_expired under the second
\* shared lock, which a token that passes keeps while its revocation GET is sent.
Lookup2(t) ==
    /\ Quiet
    /\ pc[t] = "lookup2"
    /\ writer = NoTask
    /\ lookups' = [lookups EXCEPT ![t] = @ + 1]
    /\ \E sig \in {"good", "bad", "err"}, expired \in BOOLEAN :
          LET found == cache[kid[t]] # NoKey
              r == CheckToken(found, sig, expired) IN
          /\ sigRes' = [sigRes EXCEPT ![t] = IF found THEN sig ELSE "none"]
          /\ IF r = "pass"
             THEN /\ pc' = [pc EXCEPT ![t] = "revoke"]
                  /\ readers' = readers \cup {t}
                  /\ revGet' = [revGet EXCEPT ![t] = TRUE]
                  /\ fetched' = [fetched EXCEPT ![t] = NoDoc]
                  /\ now' = [now EXCEPT ![t] = UNIX_EPOCH]
                  /\ UNCHANGED <<result, kid>>
             ELSE /\ Finish(t, r)
                  /\ UNCHANGED <<readers, revGet>>
    /\ UNCHANGED <<clock, origin, cache, last_refresh, writer, okT, otherVars, hdr, revStatus,
                   rres, refreshes, gets>>

\* What GET {revocation_endpoint}/{tid} may answer: 200 only for a tid the
\* endpoint holds, 404 only for one it does not hold.
EndpointAnswers(held) ==
    {st \in RevocationStatuses : (st = "200" => held) /\ (st = "404" => ~held)}

\* A request that takes the token as not revoked without reading the answer
\* of the endpoint: what C12_RevocationUncached must tell from Revoke.
RevokeCached(t) ==
    /\ Quiet
    /\ pc[t] = "revoke"
    /\ revStatus' = [revStatus EXCEPT ![t] = "404"]
    /\ Finish(t, "accepted")
    /\ readers' = readers \ {t}
    /\ UNCHANGED <<clock, origin, cache, last_refresh, writer, okT, otherVars, hdr,
                   sigRes, rres, lookups, refreshes, gets, revGet>>

\* Lines 105-119: the revocation endpoint answers and the request ends.
Revoke(t) ==
    /\ Quiet
    /\ pc[t] = "revoke"
    /\ \E status \in EndpointAnswers(revoked) :
          /\ revStatus' = [revStatus EXCEPT ![t] = status]
          /\ Finish(t, CheckRevocation(status))
    /\ readers' = readers \ {t}
    /\ UNCHANGED <<clock, origin, cache, last_refresh, writer, okT, otherVars, hdr, sigRes,
                   rres, lookups, refreshes, gets, revGet>>

Next ==
    \/ Tick
    \/ Sleep
    \/ Publish
    \/ \E t \in Tasks : Begin(t)
    \/ \E t \in Tasks : Reset(t)
    \/ \E t \in Tasks : Lookup1(t)
    \/ \E t \in Tasks : RefreshGuard(t)
    \/ \E t \in Tasks : FetchError(t)
    \/ \E t \in Tasks : FetchBody(t)
    \/ \E t \in Tasks : Apply(t)
    \/ \E t \in Tasks : Store(t)
    \/ \E t \in Tasks : Lookup2(t)
    \/ \E t \in Tasks : Revoke(t)

Spec == Init /\ [][Next]_vars

\* The requests of one hour, during which the tokens' tid may be revoked.
NextRevocation ==
    \/ Publish
    \/ EndpointRevokes
    \/ \E t \in Tasks : Begin(t)
    \/ \E t \in Tasks : Reset(t)
    \/ \E t \in Tasks : Lookup1(t)
    \/ \E t \in Tasks : RefreshGuard(t)
    \/ \E t \in Tasks : FetchError(t)
    \/ \E t \in Tasks : FetchBody(t)
    \/ \E t \in Tasks : Apply(t)
    \/ \E t \in Tasks : Store(t)
    \/ \E t \in Tasks : Lookup2(t)
    \/ \E t \in Tasks : Revoke(t)

SpecRevocation == Init /\ [][NextRevocation]_vars

\* The .await points of a request and of the refresh it calls: the locks and
\* the two GETs.
SuspensionPoints ==
    {"lookup1", "refresh", "fetch", "apply", "store", "lookup2", "revoke"}

\* The future of the request is dropped at an .await: its guards are
\* dropped with it and nothing more of it runs.
Cancel(t) ==
    /\ Quiet
    /\ pc[t] \in SuspensionPoints
    /\ pc' = [pc EXCEPT ![t] = "idle"]
    /\ readers' = readers \ {t}
    /\ writer' = IF writer = t THEN NoTask ELSE writer
    /\ kid' = [kid EXCEPT ![t] = "none"]
    /\ result' = [result EXCEPT ![t] = "none"]
    /\ rres' = [rres EXCEPT ![t] = "none"]
    /\ lookups' = [lookups EXCEPT ![t] = 0]
    /\ refreshes' = [refreshes EXCEPT ![t] = 0]
    /\ gets' = [gets EXCEPT ![t] = 0]
    /\ revGet' = [revGet EXCEPT ![t] = FALSE]
    /\ hdr' = [hdr EXCEPT ![t] = "none"]
    /\ sigRes' = [sigRes EXCEPT ![t] = "none"]
    /\ revStatus' = [revStatus EXCEPT ![t] = "none"]
    /\ UNCHANGED <<clock, origin, cache, last_refresh, okT, otherVars, now,
                   fetched>>

\* The requests of one hour, any of which may be cancelled.
NextCancel ==
    \/ \E t \in Tasks : Begin(t)
    \/ \E t \in Tasks : Reset(t)
    \/ \E t \in Tasks : Lookup1(t)
    \/ \E t \in Tasks : RefreshGuard(t)
    \/ \E t \in Tasks : FetchError(t)
    \/ \E t \in Tasks : FetchBody(t)
    \/ \E t \in Tasks : Apply(t)
    \/ \E t \in Tasks : Store(t)
    \/ \E t \in Tasks : Lookup2(t)
    \/ \E t \in Tasks : Revoke(t)
    \/ \E t \in Tasks : Cancel(t)

SpecCancel == Init /\ [][NextCancel]_vars

----------------------------------------------------------------------------
(* The two locks of the cache, with their waiters *)

\* lock.read().await or lock.write().await is polled: the task joins the queue.
Enqueue(lock, t, mode) ==
    [lock EXCEPT !.queue = Append(@, [task |-> t, mode |-> mode])]

\* tokio's RwLock is fair: the waiter at the head of the queue is served
\* first, a reader when no writer holds the lock, a writer when nobody does.
CanAcquire(lock, t) ==
    /\ lock.queue # << >>
    /\ lock.queue[1].task = t
    /\ lock.writer = NoTask
    /\ lock.queue[1].mode = "write" => lock.readers = {}

\* The head of the queue gets its guard.
Acquire(lock) ==
    LET head == lock.queue[1] IN
    [readers |-> IF head.mode = "read" THEN lock.readers \cup {head.task}
                 ELSE lock.readers,
     writer |-> IF head.mode = "write" THEN head.task ELSE lock.writer,
     queue |-> Tail(lock.queue)]

\* The guard of task t is dropped.
Release(lock, t) ==
    [lock EXCEPT !.readers = @ \ {t},
                 !.writer = IF @ = t THEN NoTask ELSE @]

\* The task waits for a lock.
Waiting(t) == position[t].pc \in {"read1", "guard", "write", "store", "read2"}

\* refresh has returned Ok to task t: a request goes on to cache.read() of
\* extractor line 81, a direct call of refresh is over.
AfterRefresh(t, cl) ==
    IF position[t].call = "request"
    THEN /\ position' = [position EXCEPT ![t].pc = "read2"]
         /\ cacheLock' = Enqueue(cl, t, "read")
    ELSE /\ position' = [position EXCEPT ![t].pc = "done"]
         /\ cacheLock' = cl

\* What the lock protocol leaves alone.
lockFrame == <<clock, origin, cacheVars, taskVars, okT, seenVars, revoked,
               policyVars, callVars, webVars>>

\* A request arrives and reaches cache.read() of extractor line 69, or
\* refresh is called directly and reaches last_refresh.read() of line 39.
LockBegin(t) ==
    /\ position[t].pc = "idle"
    /\ \/ /\ position' = [position EXCEPT ![t] = [pc |-> "read1", call |-> "request"]]
          /\ cacheLock' = Enqueue(cacheLock, t, "read")
          /\ UNCHANGED lastRefreshLock
       \/ /\ position' = [position EXCEPT ![t] = [pc |-> "guard", call |-> "refresh"]]
          /\ lastRefreshLock' = Enqueue(lastRefreshLock, t, "read")
          /\ UNCHANGED cacheLock
    /\ UNCHANGED lockFrame

\* Extractor lines 68-81: the shared lock is granted, contains_key is
\* evaluated and the guard is dropped at the end of its block; then refresh
\* is called (line 39) or the second cache.read() is polled (line 81).
LockLookup1(t) ==
    /\ position[t].pc = "read1"
    /\ CanAcquire(cacheLock, t)
    /\ \E cache_contains_key \in BOOLEAN :
          LET dropped == Release(Acquire(cacheLock), t) IN
          IF cache_contains_key
          THEN /\ position' = [position EXCEPT ![t].pc = "read2"]
               /\ cacheLock' = Enqueue(dropped, t, "read")
               /\ UNCHANGED lastRefreshLock
          ELSE /\ position' = [position EXCEPT ![t].pc = "guard"]
               /\ cacheLock' = dropped
               /\ lastRefreshLock' = Enqueue(lastRefreshLock, t, "read")
    /\ UNCHANGED lockFrame

\* A refresh that keeps its shared guard on last_refresh while it fetches:
\* what C39_DeadlockFree must tell from LockGuard.
LockGuardKeepsGuard(t) ==
    /\ position[t].pc = "guard"
    /\ CanAcquire(lastRefreshLock, t)
    /\ \E limited \in BOOLEAN :
          IF limited
          THEN /\ lastRefreshLock' = Release(Acquire(lastRefreshLock), t)
               /\ AfterRefresh(t, cacheLock)
          ELSE /\ lastRefreshLock' = Acquire(lastRefreshLock)
               /\ position' = [position EXCEPT ![t].pc = "fetch"]
               /\ UNCHANGED cacheLock
    /\ UNCHANGED lockFrame

\* refresh lines 39-45: the shared lock on last_refresh is granted; a
\* rate-limited call returns Ok, dropping the guard; otherwise the guard is
\* dropped (line 43) and the GET is sent.
LockGuard(t) ==
    /\ position[t].pc = "guard"
    /\ CanAcquire(lastRefreshLock, t)
    /\ lastRefreshLock' = Release(Acquire(lastRefreshLock), t)
    /\ \E limited \in BOOLEAN :
          IF limited
          THEN AfterRefresh(t, cacheLock)
          ELSE /\ position' = [position EXCEPT ![t].pc = "fetch"]
               /\ UNCHANGED cacheLock
    /\ UNCHANGED lockFrame

\* refresh lines 45-47: the GET fails and refresh returns the error, or it
\* answers and cache.write() is polled.
LockFetch(t) ==
    /\ position[t].pc = "fetch"
    /\ \E failed \in BOOLEAN :
          IF failed
          THEN /\ position' = [position EXCEPT ![t].pc = "done"]
               /\ lastRefreshLock' = Release(lastRefreshLock, t)
               /\ UNCHANGED cacheLock
          ELSE /\ position' = [position EXCEPT ![t].pc = "write"]
               /\ cacheLock' = Enqueue(cacheLock, t, "write")
               /\ UNCHANGED lastRefreshLock
    /\ UNCHANGED lockFrame

\* refresh lines 47-65: the exclusive lock on the cache is granted; a key
\* that does not convert returns the error and drops the guard; otherwise
\* last_refresh.write() is polled with the cache still locked.
LockApply(t) ==
    /\ position[t].pc = "write"
    /\ CanAcquire(cacheLock, t)
    /\ \E invalid \in BOOLEAN :
          IF invalid
          THEN /\ position' = [position EXCEPT ![t].pc = "done"]
               /\ cacheLock' = Release(Acquire(cacheLock), t)
               /\ lastRefreshLock' = Release(lastRefreshLock, t)
          ELSE /\ position' = [position EXCEPT ![t].pc = "store"]
               /\ cacheLock' = Acquire(cacheLock)
               /\ lastRefreshLock' = Enqueue(lastRefreshLock, t, "write")
    /\ UNCHANGED lockFrame

\* refresh lines 65-68: the exclusive lock on last_refresh is granted, now
\* is stored, and both guards are dropped as refresh returns Ok.
LockStore(t) ==
    /\ position[t].pc = "store"
    /\ CanAcquire(lastRefreshLock, t)
    /\ lastRefreshLock' = Release(Acquire(lastRefreshLock), t)
    /\ AfterRefresh(t, Release(cacheLock, t))
    /\ UNCHANGED lockFrame

\* Extractor lines 81-101: the shared lock is granted; a token that fails a
\* check ends the request and drops the guard; one that passes sends the
\* revocation GET with the guard alive.
LockLookup2(t) ==
    /\ position[t].pc = "read2"
    /\ CanAcquire(cacheLock, t)
    /\ \E passes \in BOOLEAN :
          IF passes
          THEN /\ position' = [position EXCEPT ![t].pc = "revoke"]
               /\ cacheLock' = Acquire(cacheLock)
          ELSE /\ position' = [position EXCEPT ![t].pc = "done"]
               /\ cacheLock' = Release(Acquire(cacheLock), t)
    /\ UNCHANGED <<lastRefreshLock, lockFrame>>

\* Extractor lines 101-119: the revocation endpoint answers, the request
\* returns and its guard is dropped.
LockRevoke(t) ==
    /\ position[t].pc = "revoke"
    /\ position' = [position EXCEPT ![t].pc = "done"]
    /\ cacheLock' = Release(cacheLock, t)
    /\ UNCHANGED <<lastRefreshLock, lockFrame>>

\* The task is free for its next call.
LockReset(t) ==
    /\ position[t].pc = "done"
    /\ position' = [position EXCEPT ![t] = [pc |-> "idle", call |-> "none"]]
    /\ UNCHANGED <<cacheLock, lastRefreshLock, lockFrame>>

NextLocks ==
    \/ \E t \in LockTasks : LockBegin(t)
    \/ \E t \in LockTasks : LockLookup1(t)
    \/ \E t \in LockTasks : LockGuard(t)
    \/ \E t \in LockTasks : LockFetch(t)
    \/ \E t \in LockTasks : LockApply(t)
    \/ \E t \in LockTasks : LockStore(t)
    \/ \E t \in LockTasks : LockLookup2(t)
    \/ \E t \in LockTasks : LockRevoke(t)
    \/ \E t \in LockTasks : LockReset(t)

\* What a task that has begun does next: the runtime polls a task whose lock
\* is granted, and a GET that was sent is answered or fails.
LockStep(t) ==
    \/ LockLookup1(t)
    \/ LockGuard(t)
    \/ LockFetch(t)
    \/ LockApply(t)
    \/ LockStore(t)
    \/ LockLookup2(t)
    \/ LockRevoke(t)

InitLocks == Init /\ origin = {}

SpecLocks ==
    InitLocks /\ [][NextLocks]_vars /\ \A t \in LockTasks : WF_vars(LockStep(t))

TypeOK ==
    /\ clock \in UNIX_EPOCH..LateTime
    /\ origin \in SUBSET Kids
    /\ cache \in [Kids -> {NoKey} \cup (UNIX_EPOCH..LateTime)]
    /\ last_refresh \in UNIX_EPOCH..LateTime
    /\ readers \subseteq Tasks
    /\ writer \in Tasks \cup {NoTask}
    /\ pc \in [Tasks -> {"idle", "lookup1", "refresh", "fetch", "apply", "store",
                         "lookup2", "revoke", "done"}]
    /\ kid \in [Tasks -> Kids \cup {"none"}]
    /\ now \in [Tasks -> UNIX_EPOCH..LateTime]
    /\ fetched \in [Tasks -> Docs]
    /\ rres \in [Tasks -> {"none", "limited", "err_fetch", "err_jwk", "applied"}]
    /\ lookups \in [Tasks -> 0..2]
    /\ refreshes \in [Tasks -> 0..1]
    /\ gets \in [Tasks -> 0..1]
    /\ revGet \in [Tasks -> BOOLEAN]
    /\ result \in [Tasks -> Results]
    /\ okT \in {NoKey} \cup (UNIX_EPOCH..LateTime)
    /\ hdr \in [Tasks -> HeaderValues]
    /\ sigRes \in [Tasks -> {"none", "good", "bad", "err"}]
    /\ revStatus \in [Tasks -> RevocationStatuses \cup {"none"}]
    /\ revoked \in BOOLEAN
    /\ pNow \in Nat
    /\ pNbf \in Nat
    /\ pExp \in Nat
    /\ pOut \in {"none", "401_time", "accepted"}

----------------------------------------------------------------------------
(* Jwt::from_request_parts: the time policy of src/jwt/mod.rs *)

\* A policy without leeway: what C10_Leeway must tell from JwtTimePolicy.
JwtTimePolicyStrict(nbf, exp, n) ==
    IF nbf > n THEN "401_time"
    ELSE IF exp < n THEN "401_time"
    ELSE "accepted"

\* Lines 105-115: nbf and exp against now, all usize milliseconds.
JwtTimePolicy(nbf, exp, n) ==
    IF nbf > n + LeewayMs THEN "401_time"
    ELSE IF exp < n - LeewayMs THEN "401_time"
    ELSE "accepted"

\* The values of `now`: at least 5 min after the epoch, so that
\* now - 1000 * 60 * 5 does not leave usize.
PolicyNows == {i * LeewayMs : i \in 1..MaxNow}

\* The values of nbf and exp around the three instants the policy tells apart.
PolicyClaims(n) ==
    {m \in {n + b + o : b \in {-LeewayMs, 0, LeewayMs}, o \in -MaxOffset..MaxOffset} :
        m >= 0}

\* A verified token reaches the time policy.
InitPolicy ==
    /\ InitMain
    /\ origin = {}
    /\ pNow \in PolicyNows
    /\ pNbf \in PolicyClaims(pNow)
    /\ pExp \in PolicyClaims(pNow)
    /\ pOut = "none"
    /\ CallsIdle
    /\ WebIdle

\* Lines 105-117.
JwtCheck ==
    /\ pOut = "none"
    /\ pOut' = JwtTimePolicy(pNbf, pExp, pNow)
    /\ UNCHANGED <<clock, origin, cacheVars, taskVars, okT, seenVars, revoked,
                   callVars, webVars, lockVars, pNow, pNbf, pExp>>

NextPolicy == JwtCheck

SpecPolicy == InitPolicy /\ [][NextPolicy]_vars

----------------------------------------------------------------------------
(* Compact tokens: text, base64url and signatures *)

\* One segment of a compact token, the text between two '.' characters.
\* `enc` tells whether the text is base64url; `kind`, `val`, `key` and `over`
\* describe the bytes it encodes: a JSON value `val`, or a signature made
\* with the private key of `key` over the text `over`, or neither.
Segment(enc, kind, val, key, over) ==
    [enc |-> enc, kind |-> kind, val |-> val, key |-> key, over |-> over]

\* Base64UrlUnpadded::encode_string of a JSON document.
EncodeJson(val) == Segment("b64", "json", val, "none", << >>)

\* Header::encode for alg ES256, a header whose alg serde does not know,
\* Claims::encode, base64url of bytes that are no JSON, text that is no
\* base64url.
HeaderES256 == EncodeJson("hdrES256")
HeaderOther == EncodeJson("hdrHS256")
ClaimsText == EncodeJson("claims")
JunkText == Segment("b64", "junk", "junk", "none", << >>)
RawText == Segment("raw", "junk", "junk", "none", << >>)

PlainSegments == {HeaderES256, HeaderOther, ClaimsText, JunkText, RawText}

\* The texts with at most n - 1 '.' characters, as their segments.
RECURSIVE Texts(_)
Texts(n) ==
    IF n = 0 THEN {<< >>}
    ELSE LET shorter == Texts(n - 1)
         IN  shorter \cup {Append(s, e) : s \in shorter, e \in PlainSegments}

\* Signer::sign_oneshot followed by Base64UrlUnpadded::encode_string: the
\* signature segment for `contents` under the private key of `key`.
SignatureText(key, contents) == Segment("b64", "sig", "none", key, contents)

\* The signature segments a token over `contents` may end with: the right
\* one, one by another key, one over another text, base64url of bytes that
\* are no signature, and text that is no base64url.
SignatureTexts(contents) ==
    {SignatureText(k, contents) : k \in Kids}
        \cup {SignatureText(k, <<HeaderES256, JunkText>>) : k \in Kids}
        \cup {JunkText, RawText}

\* The compact tokens: texts with at most MaxDots '.' characters.
Tokens ==
    {<<e>> : e \in PlainSegments}
        \cup UNION {{Append(c, g) : g \in SignatureTexts(c)} :
                        c \in Texts(MaxDots) \ {<< >>}}

\* Base64UrlUnpadded::decode_vec: the bytes a text encodes, or an error.
DecodeBase64(seg) ==
    IF seg.enc = "b64"
    THEN [ok |-> TRUE, kind |-> seg.kind, val |-> seg.val, key |-> seg.key,
          over |-> seg.over]
    ELSE [ok |-> FALSE, kind |-> "none", val |-> "none", key |-> "none",
          over |-> << >>]

\* str::as_bytes: the bytes of the text itself, which are not the bytes the
\* text encodes.
AsBytes(seg) ==
    [ok |-> TRUE, kind |-> "text", val |-> "none", key |-> "none", over |-> << >>]

\* Verifier::verify_oneshot(signature, contents) with the public key of
\* `key`.  Bytes that are no DER signature make OpenSSL answer `malformed`:
\* "false" (Ok(false)) or "err" (an ErrorStack), as the library build decides.
VerifyOneshot(bytes, contents, key, malformed) ==
    IF bytes.kind = "sig"
    THEN IF bytes.key = key /\ bytes.over = contents THEN "true" ELSE "false"
    ELSE malformed

\* A Header::decode that takes any alg: what C16_OnlyKeyAlgorithm must tell
\* from HeaderDecodes.
HeaderDecodesAnyAlg(seg) ==
    seg.enc = "b64" /\ seg.kind = "json" /\ seg.val \in {"hdrES256", "hdrHS256"}

\* Header::decode: base64url, then serde into Header; Algorithm has the
\* single variant ES256.
HeaderDecodes(seg) == seg.enc = "b64" /\ seg.kind = "json" /\ seg.val = "hdrES256"

\* A decode of the text after the last '.' of contents: what
\* C15_NoTokenUnlessTwoDots must tell from ClaimsDecode.
ClaimsDecodeLast(rest) ==
    /\ Len(rest) >= 1
    /\ rest[Len(rest)].enc = "b64"
    /\ rest[Len(rest)].kind = "json"
    /\ rest[Len(rest)].val = "claims"

\* Claims::decode of the text after the first '.' of contents.
ClaimsDecode(rest) ==
    /\ Len(rest) = 1
    /\ rest[1].enc = "b64"
    /\ rest[1].kind = "json"
    /\ rest[1].val = "claims"

\* What verify returns: an error, Ok(None), or Ok(Some(token)) with the
\* decoded header and claims.
Returned(res) == [res |-> res, header |-> "none", claims |-> "none"]

\* Lines 63-72 of verify: split_once and the two decodes.
DecodeContents(contents) ==
    IF Len(contents) < 2 THEN Returned("InvalidFormat")
    ELSE IF ~HeaderDecodes(contents[1]) THEN Returned("DecodeHeader")
    ELSE IF ~ClaimsDecode(Tail(contents)) THEN Returned("DecodeClaims")
    ELSE [res |-> "Some", header |-> contents[1].val, claims |-> contents[2].val]

\* A verify that decodes header and claims before it checks the signature:
\* what C14_VerifyBeforeDecode must tell from KeyVerify.
KeyVerifyDecodesFirst(token, key, malformed) ==
    IF Len(token) < 2 THEN Returned("InvalidFormat")
    ELSE LET contents == SubSeq(token, 1, Len(token) - 1)
             signature == DecodeBase64(token[Len(token)])
             decoded == DecodeContents(contents)
         IN  IF decoded.res # "Some" THEN decoded
             ELSE IF ~signature.ok THEN Returned("DecodeSignature")
             ELSE LET valid == VerifyOneshot(signature, contents, key, malformed)
                  IN  IF valid = "err" THEN Returned("VerifierOperation")
                      ELSE IF valid = "false" THEN Returned("None")
                      ELSE decoded

\* VerifyingJsonWebKey::verify.
KeyVerify(token, key, malformed) ==
    IF Len(token) < 2 THEN Returned("InvalidFormat")
    ELSE LET contents == SubSeq(token, 1, Len(token) - 1)
             signature == DecodeBase64(token[Len(token)])
         IN  IF ~signature.ok THEN Returned("DecodeSignature")
             ELSE LET valid == VerifyOneshot(signature, contents, key, malformed)
                  IN  IF valid = "err" THEN Returned("VerifierOperation")
                      ELSE IF valid = "false" THEN Returned("None")
                      ELSE DecodeContents(contents)

\* Algorithm::verify: the signature text goes to verify_oneshot as it is.
AlgVerify(token, key, malformed) ==
    IF Len(token) < 2 THEN Returned("InvalidFormat")
    ELSE LET contents == SubSeq(token, 1, Len(token) - 1)
             valid == VerifyOneshot(AsBytes(token[Len(token)]), contents, key,
                                    malformed)
         IN  IF valid = "err" THEN Returned("VerifierOperation")
             ELSE IF valid = "false" THEN Returned("None")
             ELSE DecodeContents(contents)

\* Algorithm::sign and the format! of the test: header.claims.signature.
SignCompact(header, claims, key) ==
    LET contents == <<EncodeJson(header), EncodeJson(claims)>>
    IN  Append(contents, SignatureText(key, contents))

\* An is_valid with the comparisons turned inclusive: what C18_IsValidOrder
\* must tell from IsValid.
IsValidInclusive(exp, nbf, iss, aud, trusted, audience, n) ==
    IF exp <= n THEN "Expired"
    ELSE IF nbf >= n THEN "Premature"
    ELSE IF iss \notin trusted THEN "Untrusted"
    ELSE IF aud # audience THEN "WrongAudience"
    ELSE "Valid"

\* Claims::is_valid, `n` being Timestamp::now().
IsValid(exp, nbf, iss, aud, trusted, audience, n) ==
    IF exp < n THEN "Expired"
    ELSE IF nbf > n THEN "Premature"
    ELSE IF iss \notin trusted THEN "Untrusted"
    ELSE IF aud # audience THEN "WrongAudience"
    ELSE "Valid"

\* An optional extractor that turns a rejection into None: what
\* C20_OptionalIsMandatory must tell from OptionalExtract.
OptionalExtractLenient(h, mandatory) ==
    IF h = "none" \/ mandatory # "accepted" THEN "ok_none" ELSE "ok_some"

\* FromRequestParts for Option<Token>: `mandatory` is what
\* Token::from_request_parts returns on the same request.
OptionalExtract(h, mandatory) ==
    IF h = "none" THEN "ok_none"
    ELSE IF mandatory = "accepted" THEN "ok_some"
    ELSE mandatory

\* Problem::detail, Problem::pointer.
ProblemDetail(detail) == [pointer |-> "none", detail |-> detail]
ProblemPointer(pointer) == [pointer |-> pointer, detail |-> "none"]

\* JsonRejection::status of the variants From<JsonRejection> matches on.
JsonRejections == {"JsonDataError", "JsonSyntaxError", "MissingJsonContentType",
                   "BytesRejection"}

RejectionStatus(kind) ==
    CASE kind = "JsonDataError" -> 422
      [] kind = "JsonSyntaxError" -> 400
      [] kind = "MissingJsonContentType" -> 415
      [] kind = "BytesRejection" -> 413

\* The constructors of ErrorResponse.
Constructors == {"internal_server_error", "unauthenticated", "not_found",
                 "bad_request", "from_rejection"}

\* An internal_server_error that tells what failed: what C21_NoOracle must
\* tell from ErrorResponseOf.
ErrorResponseTelling(ctor, pointer, problems, kind) ==
    CASE ctor = "internal_server_error" ->
            [status |-> 500, problems |-> <<ProblemDetail(kind)>>]
      [] ctor = "unauthenticated" ->
            [status |-> 401,
             problems |-> <<ProblemDetail("This request requires authentication")>>]
      [] ctor = "not_found" ->
            [status |-> 404,
             problems |-> IF pointer = "none" THEN << >>
                          ELSE <<ProblemPointer(pointer)>>]
      [] ctor = "bad_request" -> [status |-> 400, problems |-> problems]
      [] ctor = "from_rejection" ->
            [status |-> RejectionStatus(kind), problems |-> <<ProblemDetail(kind)>>]

\* ErrorResponse::internal_server_error, unauthenticated, not_found,
\* bad_request and From<JsonRejection>.
ErrorResponseOf(ctor, pointer, problems, kind) ==
    CASE ctor = "internal_server_error" -> [status |-> 500, problems |-> << >>]
      [] ctor = "unauthenticated" ->
            [status |-> 401,
             problems |-> <<ProblemDetail("This request requires authentication")>>]
      [] ctor = "not_found" ->
            [status |-> 404,
             problems |-> IF pointer = "none" THEN << >>
                          ELSE <<ProblemPointer(pointer)>>]
      [] ctor = "bad_request" -> [status |-> 400, problems |-> problems]
      [] ctor = "from_rejection" ->
            [status |-> RejectionStatus(kind), problems |-> <<ProblemDetail(kind)>>]

----------------------------------------------------------------------------
(* WebAuthn: the algorithm and its COSE identifier *)

\* enum Algorithm of the WebAuthn module.
Algorithms ==
    {"ESP256", "ESP384", "ESP512", "ES256K", "ED25519", "ED448", "PS256",
     "PS384", "PS512", "ES256", "ES384", "ES512", "EdDSA", "RS512", "RS384",
     "RS256"}

\* The discriminant of each variant of enum Algorithm (#[repr(i32)]), which
\* is the number Serialize_repr writes and `a as i32` yields.
CoseId(alg) ==
    CASE alg = "ESP256" -> -9
      [] alg = "ESP384" -> -51
      [] alg = "ESP512" -> -52
      [] alg = "ES256K" -> -47
      [] alg = "ED25519" -> -19
      [] alg = "ED448" -> -53
      [] alg = "PS256" -> -37
      [] alg = "PS384" -> -38
      [] alg = "PS512" -> -39
      [] alg = "ES256" -> -7
      [] alg = "ES384" -> -35
      [] alg = "ES512" -> -36
      [] alg = "EdDSA" -> -8
      [] alg = "RS512" -> -259
      [] alg = "RS384" -> -258
      [] alg = "RS256" -> -257

\* impl TryFrom<i32> for Algorithm, arm by arm.
AlgorithmTryFrom(value) ==
    CASE value = -53 -> [res |-> "Ok", alg |-> "ED448"]
      [] value = -47 -> [res |-> "Ok", alg |-> "ES256K"]
      [] value = -39 -> [res |-> "Ok", alg |-> "PS512"]
      [] value = -38 -> [res |-> "Ok", alg |-> "PS384"]
      [] value = -37 -> [res |-> "Ok", alg |-> "PS256"]
      [] value = -19 -> [res |-> "Ok", alg |-> "ED25519"]
      [] value = -9 -> [res |-> "Ok", alg |-> "ESP256"]
      [] value = -51 -> [res |-> "Ok", alg |-> "ESP384"]
      [] value = -52 -> [res |-> "Ok", alg |-> "ESP512"]
      [] value = 259 -> [res |-> "Ok", alg |-> "RS512"]
      [] value = 258 -> [res |-> "Ok", alg |-> "RS384"]
      [] value = 257 -> [res |-> "Ok", alg |-> "RS256"]
      [] value = -8 -> [res |-> "Ok", alg |-> "EdDSA"]
      [] value = -36 -> [res |-> "Ok", alg |-> "ES512"]
      [] value = -35 -> [res |-> "Ok", alg |-> "ES384"]
      [] value = -7 -> [res |-> "Ok", alg |-> "ES256"]
      [] OTHER -> [res |-> "Err", value |-> value]

----------------------------------------------------------------------------
(* WebAuthn: the authenticator data *)

\* The shortest authenticator data: 32 bytes of hash, the flags, 4 bytes of
\* counter.
MinAuthenticatorData == 37

\* u32::from_le_bytes: the first byte is the least significant.
FromLeBytes(b) == b[1] + 256 * b[2] + 65536 * b[3] + 16777216 * b[4]

\* AuthenticatorData::deserialize on a string that is base64url text of
\* `bytes` (decodes) or is no base64url text at all.
AuthenticatorDataDeserialize(decodes, bytes) ==
    IF ~decodes THEN [res |-> "Err", error |-> "base64"]
    ELSE IF Len(bytes) < MinAuthenticatorData
    THEN [res |-> "Err",
          error |-> "authenticator data must be at least 37 bytes"]
    ELSE [res |-> "Ok",
          relying_party_id_hash |-> SubSeq(bytes, 1, 32),
          flags |-> bytes[33],
          signature_counter |-> FromLeBytes(SubSeq(bytes, 34, 37)),
          raw |-> bytes]

----------------------------------------------------------------------------
(* WebAuthn: the validity window of a challenge *)

\* A challenge valid on the closed interval: what C33_OpenInterval must tell
\* from ChallengeIsValid.
ChallengeIsValidClosed(ch, n) == ch.expires >= n /\ ch.issued <= n

\* Challenge::is_valid, `n` being Timestamp::now().
ChallengeIsValid(ch, n) == ch.expires > n /\ ch.issued < n

----------------------------------------------------------------------------
(* Issuing a token *)

\* enum TokenType
TokenTypes == {"Common", "Consent", "Provisioning"}

\* The Duration::from_secs that issue adds for each token type, in seconds.
IssueDuration(typ) ==
    CASE typ = "Common" -> 60 * 60 * 24 * 30
      [] typ = "Consent" -> 60 * 5
      [] typ = "Provisioning" -> 60 * 60 * 4

\* SigningJsonWebKey::issue. Timestamp::now() is read twice: `first` is the
\* reading that exp is computed from, `second` the later one stored as iat.
\* `failed` is OpenSSL failing to create the signer or to sign.
Issue(k, subject, typ, first, second, failed) ==
    IF failed THEN [res |-> "Err"]
    ELSE [res |-> "Ok",
          token |-> [header |-> [alg |-> "ES256", typ |-> "JWT", kid |-> k],
                     claims |-> [exp |-> first + IssueDuration(typ),
                                 iat |-> second,
                                 sub |-> subject,
                                 typ |-> typ],
                     signature |-> [by |-> k,
                                    over |-> <<"header", k, "claims", subject,
                                               typ, first, second>>]]]

----------------------------------------------------------------------------
(* Issuer-style tokens: JwtEncoder::encode *)

\* try_into a usize: fails on a negative number of milliseconds.
FitsUsize(ms) == ms >= 0

\* JwtEncoder::encode of jwt/encoder.rs. `first`, `second` and `third` are the
\* three readings of jiff::Timestamp::now(), as_millisecond; a Duration of
\* whole seconds adds 1000 milliseconds per second. `failed` is
\* jsonwebtoken::encode returning an error.
JwtEncode(issuer, subject, expires_in_seconds, first, second, third, failed) ==
    LET exp == first + 1000 * expires_in_seconds
        nbf == second - 1000 * (60 * 15)
        iat == third
    IN  IF ~FitsUsize(exp) THEN [res |-> "Err", claim |-> "exp"]
        ELSE IF ~FitsUsize(nbf) THEN [res |-> "Err", claim |-> "nbf"]
        ELSE IF ~FitsUsize(iat) THEN [res |-> "Err", claim |-> "iat"]
        ELSE IF failed THEN [res |-> "Err", claim |-> "none"]
        ELSE [res |-> "Ok",
              claims |-> [exp |-> exp, iss |-> issuer, iat |-> iat,
                          nbf |-> nbf, sub |-> subject]]

\* JwtEncoder::encode of jwt_old/encoder.rs: two readings of the clock, and
\* nbf is a copy of iat.
JwtOldEncode(issuer, subject, valid_for, custom_duration, first, second, failed) ==
    LET duration == IF custom_duration.some THEN custom_duration.secs
                    ELSE valid_for
        exp == first + 1000 * duration
        iat == second
        nbf == iat
    IN  IF ~FitsUsize(exp) THEN [res |-> "Err", claim |-> "exp"]
        ELSE IF ~FitsUsize(iat) THEN [res |-> "Err", claim |-> "iat"]
        ELSE IF failed THEN [res |-> "Err", claim |-> "none"]
        ELSE [res |-> "Ok",
              claims |-> [exp |-> exp, iss |-> issuer, iat |-> iat,
                          nbf |-> nbf, sub |-> subject]]

----------------------------------------------------------------------------
(* Header and Claims as JSON *)

\* The instants of claims and of the clock that reads them.
ClaimTimes == 0..MaxClaimTime

\* A jiff::Timestamp: whole milliseconds since the epoch and what is left
\* below the millisecond.
Timestamps == [ms : ClaimTimes, nanos : {0, 1}]

\* A conversion to milliseconds that rounds up: what C36_RoundTripToMsec must
\* tell from AsMillisecond.
AsMillisecondRoundedUp(t) == t.ms + t.nanos

\* Timestamp::as_millisecond: the part below the millisecond is dropped.
AsMillisecond(t) == t.ms

\* Timestamp::from_millisecond
FromMillisecond(ms) == [ms |-> ms, nanos |-> 0]

\* Header::encode: serde_json::to_string, then base64url.
HeaderEncode(h) ==
    [enc |-> "b64", json |-> [alg |-> h.alg, typ |-> h.typ, kid |-> h.kid]]

\* Header::decode: base64url, then serde_json::from_slice into Header, whose
\* alg has the single variant ES256.
HeaderDecode(text) ==
    IF text.enc # "b64" THEN [res |-> "Err", error |-> "Base64"]
    ELSE IF text.json.alg # "ES256" THEN [res |-> "Err", error |-> "Json"]
    ELSE [res |-> "Ok",
          value |-> [alg |-> text.json.alg, typ |-> text.json.typ,
                     kid |-> text.json.kid]]

\* Claims::encode: exp, iat and nbf are written by serde_msec::serialize.
ClaimsEncode(c) ==
    [enc |-> "b64",
     json |-> [exp |-> AsMillisecond(c.exp), iss |-> c.iss,
               iat |-> AsMillisecond(c.iat), nbf |-> AsMillisecond(c.nbf),
               sub |-> c.sub, aud |-> c.aud]]

\* Claims::decode of an encoded Claims: exp, iat and nbf are read by
\* serde_msec::deserialize.
ClaimsDecodeJson(text) ==
    IF text.enc # "b64" THEN [res |-> "Err", error |-> "Base64"]
    ELSE [res |-> "Ok",
          value |-> [exp |-> FromMillisecond(text.json.exp),
                     iss |-> text.json.iss,
                     iat |-> FromMillisecond(text.json.iat),
                     nbf |-> FromMillisecond(text.json.nbf),
                     sub |-> text.json.sub, aud |-> text.json.aud]]

----------------------------------------------------------------------------
(* The API key extractor *)

\* An extractor that accepts every readable header value: what
\* C37_AllowListOnly must tell from ApiKeyExtract.
ApiKeyExtractAnyValue(headers, allowed_api_keys) ==
    IF headers = << >> \/ ~headers[1].visible
    THEN [res |-> "Err", response |-> ErrorResponseOf("unauthenticated", "none", << >>, "none")]
    ELSE [res |-> "Ok", key |-> headers[1].text]

\* FromRequestParts for ApiKey. `headers` are the values the request carries
\* under config.header, in order: HeaderMap::get yields the first, to_str
\* fails on a value with bytes outside visible ASCII, and Vec::contains
\* compares whole strings.
ApiKeyExtract(headers, allowed_api_keys) ==
    IF headers = << >>
    THEN [res |-> "Err", response |-> ErrorResponseOf("unauthenticated", "none", << >>, "none")]
    ELSE IF ~headers[1].visible
    THEN [res |-> "Err", response |-> ErrorResponseOf("unauthenticated", "none", << >>, "none")]
    ELSE IF headers[1].text \notin allowed_api_keys
    THEN [res |-> "Err", response |-> ErrorResponseOf("unauthenticated", "none", << >>, "none")]
    ELSE [res |-> "Ok", key |-> headers[1].text]

\* OptionalFromRequestParts for ApiKey: Ok(None) without the header,
\* otherwise the mandatory extractor with Ok mapped to Some.
ApiKeyOptionalExtract(headers, allowed_api_keys) ==
    IF headers = << >> THEN [res |-> "OkNone"]
    ELSE LET mandatory == ApiKeyExtract(headers, allowed_api_keys)
         IN  IF mandatory.res = "Ok" THEN [res |-> "OkSome", key |-> mandatory.key]
             ELSE mandatory

----------------------------------------------------------------------------
(* Calls of the pure functions *)

Malformed == {"false", "err"}

Issuers == {"issA", "issB"}

Audiences == {"audA", "audB"}

\* What the mandatory extractor can return on a request with header h.
MandatoryResults(h) ==
    IF CheckHeader(h) # "pass" THEN {CheckHeader(h)}
    ELSE Results \ {"none", "401_header", "401_parse"}

VerifyInputs(fn) ==
    [fn : {fn}, token : Tokens, key : Kids, malformed : Malformed]

RoundTripInputs ==
    [fn : {"roundtrip"}, header : {"hdrES256"}, claims : {"claims"}, key : Kids,
     malformed : Malformed]

IsValidInputs ==
    [fn : {"is_valid"}, exp : ClaimTimes, nbf : ClaimTimes, now : ClaimTimes,
     iss : Issuers, aud : Audiences, trusted : SUBSET Issuers,
     audience : Audiences]

OptionalInputs ==
    UNION {[fn : {"optional"}, header : {h}, mandatory : MandatoryResults(h)] :
              h \in HeaderValues}

\* The problems a caller hands to bad_request.
ProblemLists ==
    {<< >>, <<ProblemDetail("d")>>, <<ProblemPointer("/a"), ProblemDetail("d")>>}

ErrorResponseInputs ==
    [fn : {"error_response"}, ctor : Constructors, pointer : {"none", "/a"},
     problems : ProblemLists, kind : JsonRejections]

\* The numbers handed to Algorithm::try_from: every COSE id, its negation,
\* and numbers that are neither.
CoseValues ==
    {CoseId(a) : a \in Algorithms} \cup {0 - CoseId(a) : a \in Algorithms}
        \cup {0, 1, -1}

TryFromInputs == [fn : {"try_from"}, value : CoseValues]

\* Authenticator data as the authenticator sends it: the hash, the flags,
\* the counter and optional trailing fields.
WholeAuthenticatorData ==
    {[i \in 1..32 |-> h] \o <<f>> \o c \o rest :
        h \in {0, 7}, f \in {1, 5}, c \in [1..4 -> {0, 1}],
        rest \in {<< >>, <<9>>}}

\* The same cut short.
CutAuthenticatorData ==
    {SubSeq(b, 1, n) : b \in WholeAuthenticatorData, n \in {0, 32, 36}}

AuthenticatorDataInputs ==
    [fn : {"authenticator_data"}, decodes : BOOLEAN,
     bytes : WholeAuthenticatorData \cup CutAuthenticatorData]

\* Challenge rows with every order of issued, expires and the current time.
ChallengeIsValidInputs ==
    [fn : {"challenge_is_valid"}, issued : ClaimTimes, expires : ClaimTimes,
     now : ClaimTimes]

\* Calls of issue with the two readings of the clock, in seconds; the clock
\* does not go back between them.
IssueInputs ==
    {i \in [fn : {"issue"}, key : Kids, subject : {"u1"}, typ : TokenTypes,
            first : ClaimTimes, second : ClaimTimes, failed : BOOLEAN] :
        i.first <= i.second}

\* The readings of the clock during one call of encode, in milliseconds
\* since the epoch: shortly after the epoch, or a quarter of an hour later.
EncodeReadings ==
    {b + d : b \in {0, 1000 * (60 * 15)}, d \in ClaimTimes}

\* Option<Duration>
CustomDurations == {[some |-> FALSE, secs |-> 0], [some |-> TRUE, secs |-> 30]}

EncodeInputs ==
    {i \in [fn : {"encode"}, issuer : {"issA"}, subject : {"u1"},
            expires_in_seconds : {60}, first : EncodeReadings,
            second : EncodeReadings, third : EncodeReadings, failed : BOOLEAN] :
        i.first <= i.second /\ i.second <= i.third}

EncodeOldInputs ==
    {i \in [fn : {"encode_old"}, issuer : {"issA"}, subject : {"u1"},
            valid_for : {60}, custom_duration : CustomDurations,
            first : EncodeReadings, second : EncodeReadings, failed : BOOLEAN] :
        i.first <= i.second}

HeaderRoundTripInputs ==
    [fn : {"header_roundtrip"},
     header : [alg : {"ES256"}, typ : {"JWT", "at+jwt"}, kid : Kids]]

ClaimsRoundTripInputs ==
    [fn : {"claims_roundtrip"},
     claims : [exp : Timestamps, iss : {"issA"}, iat : Timestamps,
               nbf : Timestamps, sub : {"u1"}, aud : {"audA"}]]

\* Header values: a key, the same in another case, a part of it, more than
\* it, another key, and bytes that are no visible ASCII.
ApiKeyHeaderValues ==
    [text : {"keyA", "KEYA", "key", "keyAx", "keyB"}, visible : {TRUE}]
        \cup [text : {"bytes"}, visible : {FALSE}]

\* The values a request carries under the configured header name.
ApiKeyHeaders ==
    {<< >>} \cup {<<v>> : v \in ApiKeyHeaderValues}
            \cup {<<v, w>> : v \in {[text |-> "keyA", visible |-> TRUE],
                                     [text |-> "KEYA", visible |-> TRUE]},
                             w \in {[text |-> "keyA", visible |-> TRUE],
                                     [text |-> "KEYA", visible |-> TRUE]}}

ApiKeyInputs ==
    [fn : {"api_key", "optional_api_key"}, headers : ApiKeyHeaders,
     allowed_api_keys : SUBSET {"keyA", "keyB", "bytes"}]

InitCalls ==
    /\ InitMain
    /\ origin = {}
    /\ PolicyIdle
    /\ input \in VerifyInputs("verify") \cup VerifyInputs("alg_verify")
                    \cup RoundTripInputs \cup IsValidInputs \cup OptionalInputs
                    \cup ErrorResponseInputs \cup TryFromInputs
                    \cup AuthenticatorDataInputs \cup ChallengeIsValidInputs
                    \cup IssueInputs \cup EncodeInputs \cup EncodeOldInputs
                    \cup HeaderRoundTripInputs \cup ClaimsRoundTripInputs
                    \cup ApiKeyInputs
    /\ output = NoResult
    /\ WebIdle

\* What a call leaves alone.
callFrame == <<clock, origin, cacheVars, taskVars, okT, seenVars, revoked,
               policyVars, webVars, lockVars, input>>

\* verifying_key.verify(token)
VerifyCall ==
    /\ input.fn = "verify"
    /\ output.res = "none"
    /\ output' = KeyVerify(input.token, input.key, input.malformed)
    /\ UNCHANGED callFrame

\* jwk.alg.verify(token, &key)
AlgVerifyCall ==
    /\ input.fn = "alg_verify"
    /\ output.res = "none"
    /\ output' = AlgVerify(input.token, input.key, input.malformed)
    /\ UNCHANGED callFrame

\* tests/token.rs: alg.sign, format!("{header}.{claims}.{signature}"),
\* alg.verify with the key of the same JWK.
RoundTripCall ==
    /\ input.fn = "roundtrip"
    /\ output.res = "none"
    /\ output' = AlgVerify(SignCompact(input.header, input.claims, input.key),
                         input.key, input.malformed)
    /\ UNCHANGED callFrame

\* claims.is_valid(trusted_issuers, audience)
IsValidCall ==
    /\ input.fn = "is_valid"
    /\ output.res = "none"
    /\ output' = Returned(IsValid(input.exp, input.nbf, input.iss, input.aud,
                                  input.trusted, input.audience, input.now))
    /\ UNCHANGED callFrame

\* Option<Token>::from_request_parts
OptionalCall ==
    /\ input.fn = "optional"
    /\ output.res = "none"
    /\ output' = Returned(OptionalExtract(input.header, input.mandatory))
    /\ UNCHANGED callFrame

\* ErrorResponse::internal_server_error() and the other constructors
ErrorResponseCall ==
    /\ input.fn = "error_response"
    /\ output.res = "none"
    /\ output' = [res |-> "response",
                  response |-> ErrorResponseOf(input.ctor, input.pointer,
                                               input.problems, input.kind)]
    /\ UNCHANGED callFrame

\* Algorithm::try_from(value)
TryFromCall ==
    /\ input.fn = "try_from"
    /\ output.res = "none"
    /\ output' = AlgorithmTryFrom(input.value)
    /\ UNCHANGED callFrame

\* AuthenticatorData::deserialize
AuthenticatorDataCall ==
    /\ input.fn = "authenticator_data"
    /\ output.res = "none"
    /\ output' = AuthenticatorDataDeserialize(input.decodes, input.bytes)
    /\ UNCHANGED callFrame

\* challenge.is_valid()
ChallengeIsValidCall ==
    /\ input.fn = "challenge_is_valid"
    /\ output.res = "none"
    /\ output' = [res |-> IF ChallengeIsValid(input, input.now) THEN "true"
                          ELSE "false"]
    /\ UNCHANGED callFrame

\* signing_key.issue(subject, token_type)
IssueCall ==
    /\ input.fn = "issue"
    /\ output.res = "none"
    /\ output' = Issue(input.key, input.subject, input.typ, input.first,
                      input.second, input.failed)
    /\ UNCHANGED callFrame

\* encoder.encode(subject), jwt/encoder.rs
EncodeCall ==
    /\ input.fn = "encode"
    /\ output.res = "none"
    /\ output' = JwtEncode(input.issuer, input.subject,
                          input.expires_in_seconds, input.first, input.second,
                          input.third, input.failed)
    /\ UNCHANGED callFrame

\* encoder.encode(subject, custom_duration), jwt_old/encoder.rs
EncodeOldCall ==
    /\ input.fn = "encode_old"
    /\ output.res = "none"
    /\ output' = JwtOldEncode(input.issuer, input.subject, input.valid_for,
                             input.custom_duration, input.first, input.second,
                             input.failed)
    /\ UNCHANGED callFrame

\* Header::decode(&header.encode()?)
HeaderRoundTripCall ==
    /\ input.fn = "header_roundtrip"
    /\ output.res = "none"
    /\ output' = HeaderDecode(HeaderEncode(input.header))
    /\ UNCHANGED callFrame

\* Claims::decode(&claims.encode()?)
ClaimsRoundTripCall ==
    /\ input.fn = "claims_roundtrip"
    /\ output.res = "none"
    /\ output' = ClaimsDecodeJson(ClaimsEncode(input.claims))
    /\ UNCHANGED callFrame

\* ApiKey::from_request_parts
ApiKeyCall ==
    /\ input.fn = "api_key"
    /\ output.res = "none"
    /\ output' = ApiKeyExtract(input.headers, input.allowed_api_keys)
    /\ UNCHANGED callFrame

\* Option<ApiKey>::from_request_parts
OptionalApiKeyCall ==
    /\ input.fn = "optional_api_key"
    /\ output.res = "none"
    /\ output' = ApiKeyOptionalExtract(input.headers, input.allowed_api_keys)
    /\ UNCHANGED callFrame

NextCalls ==
    \/ ErrorResponseCall
    \/ ApiKeyCall
    \/ OptionalApiKeyCall
    \/ HeaderRoundTripCall
    \/ ClaimsRoundTripCall
    \/ EncodeCall
    \/ EncodeOldCall
    \/ IssueCall
    \/ ChallengeIsValidCall
    \/ AuthenticatorDataCall
    \/ TryFromCall
    \/ VerifyCall
    \/ AlgVerifyCall
    \/ RoundTripCall
    \/ IsValidCall
    \/ OptionalCall

SpecCalls == InitCalls /\ [][NextCalls]_vars

----------------------------------------------------------------------------
(* WebAuthn: the stores and the credentials *)

\* The clock of a ceremony advances at most MaxWebTicks times.
MaxWebTicks == 2

\* The instant of the initial state.
WebStart == UNIX_EPOCH + RefreshHours

Identities == {"u1", "u2"}

\* Option<&[u8]>: None or an identity.
MaybeIdentities == Identities \cup {"none"}

Origins == {"https://a.example", "https://b.example"}

\* verifier.relying_party_id()
RelyingPartyId == "rp.example"

\* issued and expires of a stored challenge: valid from the start, not valid
\* before the first tick, not valid after it.
ChallengeWindows ==
    {<<WebStart - 1, WebStart + 2>>, <<WebStart, WebStart + 2>>,
     <<WebStart - 1, WebStart + 1>>}

\* The challenges the caller may have stored for "c1".
StoredChallenges ==
    {[found |-> TRUE, identity_id |-> i, issued |-> w[1], expires |-> w[2],
      origin |-> "https://a.example"] :
        i \in {"none", "u1"}, w \in ChallengeWindows}

\* SubjectPublicKeyInfo bytes: keys of the key families, and bytes that are
\* no DER.  "spki_k1" is the P-256 public key of the key pair k1.
PublicKeys == {"spki_k1", "spki_rsa", "spki_rsa_pss", "spki_ed25519",
               "spki_ed448", "bad"}

\* PKey::public_key_from_der(..) and PKey::id(): the family of the key, or
\* "error" when the bytes do not parse.
PKeyId(der) ==
    CASE der = "spki_k1" -> "EC"
      [] der = "spki_rsa" -> "RSA"
      [] der = "spki_rsa_pss" -> "RSA_PSS"
      [] der = "spki_ed25519" -> "ED25519"
      [] der = "spki_ed448" -> "ED448"
      [] OTHER -> "error"

\* The private key whose public key the bytes hold.
KeyPairOf(der) == IF der = "spki_k1" THEN "k1" ELSE "none"

\* The keys the caller may have persisted for "r1".
StoredKeys ==
    [found : {TRUE}, identity_id : {"u1"},
     public_key : {"spki_k1", "spki_ed25519", "bad"},
     public_key_algorithm : {"ES256"}]

\* Algorithm::id
AlgorithmId(alg) ==
    CASE alg = "ED448" -> "ED448"
      [] alg = "ED25519" -> "ED25519"
      [] alg = "EdDSA" -> "DSA"
      [] alg \in {"ES512", "ES384", "ES256", "ES256K", "ESP256", "ESP384",
                  "ESP512"} -> "EC"
      [] alg \in {"PS512", "PS384", "PS256"} -> "RSA_PSS"
      [] alg \in {"RS512", "RS384", "RS256"} -> "RSA"

\* The digest verify_assertion selects for the algorithm.
DigestOf(alg) ==
    CASE alg \in {"ED448", "ED25519", "EdDSA"} -> "none"
      [] alg \in {"ES256K", "PS256", "ESP256", "RS256", "ES256"} -> "sha256"
      [] alg \in {"PS512", "ESP512", "ES512", "RS512"} -> "sha512"
      [] alg \in {"PS384", "ESP384", "RS384", "ES384"} -> "sha384"

\* openssl::sign::Verifier::new / new_without_digest: the Edwards keys take
\* no digest, the other families need one.
VerifierCreated(family, digest) ==
    (family \in {"ED25519", "ED448"}) <=> (digest = "none")

Encodings == {"e1", "e2"}

ClientDataTypes == {"webauthn.create", "webauthn.get"}

\* The signatures an assertion with these fields may carry: by either key
\* pair over the fields in either encoding, or bytes that are no signature.
SignaturesOver(ty, rp, c, o) ==
    {SignatureBy(k, Message(Sha256(rp), Sha256(ClientDataBytes(ty, c, o, e)))) :
        k \in Kids, e \in Encodings} \cup {JunkSignature}

AssertionsWith(ty, rp, c, o) ==
    {Credential("assertion", ty, Sha256(rp), c, o, uh, r, e, g, "none", "none") :
        uh \in MaybeIdentities, r \in RawIds, e \in Encodings,
        g \in SignaturesOver(ty, rp, c, o)}

\* The assertions a client may present.
Assertions ==
    UNION {AssertionsWith(ty, rp, c, o) :
              ty \in ClientDataTypes, rp \in {RelyingPartyId, "other.example"},
              c \in ChallengeBytes, o \in Origins}

\* The attestations a client may present.
Attestations ==
    {Credential("attestation", ty, Sha256(RelyingPartyId), c, o, "none", "r1",
                "e1", NoSignature, pk, alg) :
        ty \in ClientDataTypes, c \in ChallengeBytes, o \in Origins,
        pk \in PublicKeys, alg \in Algorithms}

----------------------------------------------------------------------------
(* WebAuthn: PublicKeyCredential::verify *)

\* Challenge::is_for_origin
IsForOrigin(ch, o) == ch.origin = o

\* Challenge::is_for_bearer: identity_id.as_deref() == bearer
IsForBearer(ch, bearer) == ch.identity_id = bearer

\* First checks that do not look at the relying party: what
\* C22_RelyingPartyFirst must tell from AssertionFirstChecks.
AssertionFirstChecksNoRp(cred) ==
    IF cred.type # "webauthn.get" THEN "false" ELSE "pass"

\* verify_assertion, lines 117-126: the type and the relying party.
AssertionFirstChecks(cred) ==
    IF cred.type # "webauthn.get" THEN "false"
    ELSE IF cred.rp_hash # Sha256(RelyingPartyId) THEN "false"
    ELSE "pass"

\* Checks of the challenge that do not look at the origin: what
\* C23_TrueOnlyIf must tell from AssertionChallengeChecks.
AssertionChallengeChecksAnyOrigin(ch, cred, bearer, n) ==
    IF ~ch.found THEN "false"
    ELSE IF ~ChallengeIsValid(ch, n) \/ ~IsForBearer(ch, bearer) THEN "false"
    ELSE IF /\ ch.identity_id # "none"
            /\ cred.user_handle # "none"
            /\ ch.identity_id # cred.user_handle
         THEN "false"
    ELSE "pass"

\* verify_assertion, lines 128-151: what follows the answer of the challenge
\* store.
AssertionChallengeChecks(ch, cred, bearer, n) ==
    IF ~ch.found THEN "false"
    ELSE IF \/ ~ChallengeIsValid(ch, n)
            \/ ~IsForOrigin(ch, cred.origin)
            \/ ~IsForBearer(ch, bearer)
         THEN "false"
    ELSE IF /\ ch.identity_id # "none"
            /\ cred.user_handle # "none"
            /\ ch.identity_id # cred.user_handle
         THEN "false"
    ELSE "pass"

\* A signing input built from the fields, serialised anew: what
\* C25_RawBytesSigned must tell from AssertionContents.
AssertionContentsReserialised(cred) ==
    Message(cred.rp_hash,
            Sha256(ClientDataBytes(cred.type, cred.challenge, cred.origin, "e1")))

\* verify_assertion, lines 169-180: authenticator_data.raw, then the SHA-256
\* of client_data_json.raw.
AssertionContents(cred) ==
    Message(cred.rp_hash,
            Sha256(ClientDataBytes(cred.type, cred.challenge, cred.origin,
                                   cred.enc)))

\* verify_oneshot(&response.signature, &contents) with the key of `der`.
\* Bytes that are no signature get `malformed` from OpenSSL: "false" or "err".
WebVerifyOneshot(signature, contents, der, malformed) ==
    IF signature.form = "sig"
    THEN IF signature.by = KeyPairOf(der) /\ signature.over = contents
         THEN "true" ELSE "false"
    ELSE malformed

\* Checks of the key that turn every failure into a verdict: what
\* C28_FailuresAreErrors must tell from AssertionKeyChecks.
AssertionKeyChecksErrAsFalse(pk, cred, malformed) ==
    IF ~pk.found THEN "false"
    ELSE IF cred.user_handle # "none" /\ pk.identity_id # cred.user_handle
         THEN "false"
    ELSE IF PKeyId(pk.public_key) = "error" THEN "false"
    ELSE IF ~VerifierCreated(PKeyId(pk.public_key),
                             DigestOf(pk.public_key_algorithm))
         THEN "false"
    ELSE LET valid == WebVerifyOneshot(cred.signature, AssertionContents(cred),
                                       pk.public_key, malformed)
         IN  IF valid = "true" THEN "true" ELSE "false"

\* verify_assertion, lines 153-221: what follows the answer of the public
\* key store.
AssertionKeyChecks(pk, cred, malformed) ==
    IF ~pk.found THEN "false"
    ELSE IF cred.user_handle # "none" /\ pk.identity_id # cred.user_handle
         THEN "false"
    ELSE IF PKeyId(pk.public_key) = "error" THEN "Err_PKeyFromDer"
    ELSE IF ~VerifierCreated(PKeyId(pk.public_key),
                             DigestOf(pk.public_key_algorithm))
         THEN "Err_CreateSignatureVerifier"
    ELSE LET valid == WebVerifyOneshot(cred.signature, AssertionContents(cred),
                                       pk.public_key, malformed)
         IN  IF valid = "err" THEN "Err_VerifierError" ELSE valid

\* verify_attestation, lines 58-67: the type and the bearer.
AttestationFirstChecks(cred, bearer) ==
    IF cred.type # "webauthn.create" THEN "false"
    ELSE IF bearer = "none" THEN "false"
    ELSE "pass"

\* verify_attestation, lines 69-86: what follows the answer of the challenge
\* store.
AttestationChallengeChecks(ch, cred, bearer, n) ==
    IF ~ch.found THEN "false"
    ELSE IF \/ ~ChallengeIsValid(ch, n)
            \/ ~IsForOrigin(ch, cred.origin)
            \/ ch.identity_id = "none"
            \/ ~IsForBearer(ch, bearer)
         THEN "false"
    ELSE "pass"

\* A check of the key that takes any family: what C26_TrueIff must tell from
\* AttestationKeyChecks.
AttestationKeyChecksAnyFamily(cred) ==
    IF PKeyId(cred.public_key) = "error" THEN "false" ELSE "true"

\* verify_attestation, lines 88-103: the key parses and is of the family of
\* the algorithm.
AttestationKeyChecks(cred) ==
    IF PKeyId(cred.public_key) = "error" THEN "false"
    ELSE IF PKeyId(cred.public_key) # AlgorithmId(cred.alg) THEN "false"
    ELSE "true"

\* What the callers hold in their stores before a ceremony.
InitStores(keyRows) ==
    /\ \E ch \in StoredChallenges \cup {NoChallenge} :
          challenges = [c \in ChallengeBytes |->
                           IF c = "c1" THEN ch ELSE NoChallenge]
    /\ \E pk \in keyRows :
          keys = [r \in RawIds |-> IF r = "r1" THEN pk ELSE NoPublicKey]

InitWeb(keyRows) ==
    /\ InitMain
    /\ origin = {}
    /\ PolicyIdle
    /\ CallsIdle
    /\ InitStores(keyRows)
    /\ cer = NoCeremony
    /\ queried = {}
    /\ consumed = {}

InitAssertion == InitWeb(StoredKeys \cup {NoPublicKey})

InitAttestation == InitWeb({NoPublicKey})

\* What a ceremony leaves alone.
webFrame == <<origin, cacheVars, taskVars, okT, seenVars, revoked, policyVars,
              callVars, lockVars>>

\* The call returns `r`.
Returning(c, r) == [c EXCEPT !.pc = "done", !.result = r]

\* The challenges a verification has succeeded with, after a call returned r.
ConsumedAfter(c, r) ==
    IF r = "true" THEN consumed \cup {c.cred.challenge} ELSE consumed

\* Time passes between two ceremonies.
WebTick ==
    /\ cer.pc = "idle"
    /\ clock < WebStart + MaxWebTicks
    /\ clock' = clock + 1
    /\ UNCHANGED <<webFrame, webVars>>

\* The caller deletes a challenge from its store.
ForgetChallenge ==
    /\ cer.pc = "idle"
    /\ \E c \in ChallengeBytes :
          /\ challenges[c].found
          /\ challenges' = [challenges EXCEPT ![c] = NoChallenge]
    /\ UNCHANGED <<clock, webFrame, keys, cer, queried, consumed>>

\* verify_assertion up to the call of get_challenge.
BeginAssertion ==
    /\ cer.pc = "idle"
    /\ \E cred \in Assertions, bearer \in MaybeIdentities :
          LET c == [pc |-> "get_challenge", cred |-> cred, bearer |-> bearer,
                    result |-> "none"]
          IN  IF AssertionFirstChecks(cred) = "pass"
              THEN cer' = c /\ queried' = {"challenge"}
              ELSE cer' = Returning(c, "false") /\ queried' = {}
    /\ UNCHANGED <<clock, webFrame, storeVars, consumed>>

\* get_challenge answers: verify_assertion up to the call of get_public_key.
AssertionChallenge ==
    /\ cer.pc = "get_challenge"
    /\ cer.cred.kind = "assertion"
    /\ \E failed \in BOOLEAN :
          IF failed THEN cer' = Returning(cer, "Err_GetChallenge")
          ELSE IF AssertionChallengeChecks(challenges[cer.cred.challenge],
                                           cer.cred, cer.bearer, clock) = "pass"
               THEN cer' = [cer EXCEPT !.pc = "get_public_key"]
               ELSE cer' = Returning(cer, "false")
    /\ queried' = IF cer'.pc = "get_public_key"
                  THEN queried \cup {"public_key"} ELSE queried
    /\ UNCHANGED <<clock, webFrame, storeVars, consumed>>

\* get_public_key answers: verify_assertion to its end.
AssertionKey ==
    /\ cer.pc = "get_public_key"
    /\ \E failed \in BOOLEAN, malformed \in Malformed :
          LET r == IF failed THEN "Err_GetPublicKey"
                   ELSE AssertionKeyChecks(keys[cer.cred.raw_id], cer.cred,
                                           malformed)
          IN  /\ cer' = Returning(cer, r)
              /\ consumed' = ConsumedAfter(cer, r)
    /\ UNCHANGED <<clock, webFrame, storeVars, queried>>

\* verify_attestation up to the call of get_challenge.
BeginAttestation ==
    /\ cer.pc = "idle"
    /\ \E cred \in Attestations, bearer \in MaybeIdentities :
          LET c == [pc |-> "get_challenge", cred |-> cred, bearer |-> bearer,
                    result |-> "none"]
          IN  IF AttestationFirstChecks(cred, bearer) = "pass"
              THEN cer' = c /\ queried' = {"challenge"}
              ELSE cer' = Returning(c, "false") /\ queried' = {}
    /\ UNCHANGED <<clock, webFrame, storeVars, consumed>>

\* get_challenge answers: verify_attestation to its end.
AttestationChallenge ==
    /\ cer.pc = "get_challenge"
    /\ cer.cred.kind = "attestation"
    /\ \E failed \in BOOLEAN :
          LET r == IF failed THEN "Err_GetChallenge"
                   ELSE IF AttestationChallengeChecks(
                               challenges[cer.cred.challenge], cer.cred,
                               cer.bearer, clock) = "pass"
                        THEN AttestationKeyChecks(cer.cred)
                        ELSE "false"
          IN  /\ cer' = Returning(cer, r)
              /\ consumed' = ConsumedAfter(cer, r)
    /\ UNCHANGED <<clock, webFrame, storeVars, queried>>

\* The caller has the result and may present the next credential.
WebReturn ==
    /\ cer.pc = "done"
    /\ cer' = NoCeremony
    /\ queried' = {}
    /\ UNCHANGED <<clock, webFrame, storeVars, consumed>>

NextAssertion ==
    \/ WebTick
    \/ ForgetChallenge
    \/ BeginAssertion
    \/ AssertionChallenge
    \/ AssertionKey
    \/ WebReturn

SpecAssertion == InitAssertion /\ [][NextAssertion]_vars

NextAttestation ==
    \/ WebTick
    \/ ForgetChallenge
    \/ BeginAttestation
    \/ AttestationChallenge
    \/ WebReturn

SpecAttestation == InitAttestation /\ [][NextAttestation]_vars

\* The stores hold what callers store; a call is at one of its await points.
WebTypeOK ==
    /\ \A c \in ChallengeBytes :
          challenges[c] \in StoredChallenges \cup {NoChallenge}
    /\ \A r \in RawIds : keys[r] \in StoredKeys \cup {NoPublicKey}
    /\ cer.pc \in {"idle", "get_challenge", "get_public_key", "done"}
    /\ cer.cred \in Assertions \cup Attestations \cup {NoCredential}
    /\ cer.bearer \in MaybeIdentities
    /\ queried \subseteq {"challenge", "public_key"}
    /\ consumed \subseteq ChallengeBytes

----------------------------------------------------------------------------
(* Properties *)

\* Task t leaves position `from` in this step.
StepOf(t, from) == pc[t] = from /\ pc'[t] # from

\* Task t's call of refresh has sent its GET and has not returned.
GetSent(t) == pc[t] \in {"fetch", "apply", "store"}

\* C1: of the tasks that call refresh concurrently on the same stale cache,
\* exactly one sends the JWKS GET; no two calls are past the rate limit at
\* the same time.
C1_OneGet ==
    \A t1, t2 \in Tasks : t1 # t2 => ~(GetSent(t1) /\ GetSent(t2))

\* C2: after a refresh that completed with `now` = okT, no call of refresh at
\* a time before okT + 4 h sends the GET.
C2_NoGetWithinFourHours ==
    [][\A t \in Tasks :
          (StepOf(t, "refresh") /\ okT # NoKey /\ clock - okT < RefreshHours)
              => gets'[t] = gets[t]]_vars

\* C3: an entry the extractor finds at its second lookup, and hands to
\* verify, is less than 24 h old.
C3_BoundedStaleness ==
    [][\A t \in Tasks :
          (StepOf(t, "lookup2") /\ cache[kid[t]] # NoKey)
              => clock - cache[kid[t]] < RetainHours]_vars

\* C4 as stated: a request that calls refresh looks the kid up once more,
\* two lookups in all.
C4_AlwaysRetries ==
    \A t \in Tasks : (pc[t] = "done" /\ refreshes[t] = 1) => lookups[t] = 2

\* C4: the first lookup is made under the shared lock; a kid that is present
\* goes to the second lookup with no call of refresh, an absent one to
\* refresh, once.  A call that returns Ok, rate-limited or not, is followed
\* by one more lookup under the shared lock, which rejects an absent kid
\* with Unauthenticated; a call that returns an error ends the request with
\* a 500 and no further lookup.  A call made less than 4 h after
\* last_refresh sends no GET.
C4_LookupRefreshRetry ==
    [][\A t \in Tasks :
          /\ StepOf(t, "lookup1") =>
                /\ writer = NoTask
                /\ lookups'[t] = 1
                /\ refreshes'[t] = 0
                /\ pc'[t] = IF cache[kid[t]] # NoKey THEN "lookup2" ELSE "refresh"
          /\ StepOf(t, "refresh") =>
                /\ refreshes'[t] = 1
                /\ RateLimited(last_refresh, clock) =>
                      gets'[t] = 0 /\ pc'[t] = "lookup2"
          /\ StepOf(t, "lookup2") =>
                /\ writer = NoTask
                /\ lookups'[t] = 2
                /\ refreshes'[t] = IF rres[t] = "none" THEN 0 ELSE 1
                /\ cache[kid[t]] = NoKey => result'[t] = "401_kid"
          /\ (pc[t] \in {"fetch", "apply"} /\ pc'[t] = "done") =>
                /\ result'[t] = "500_refresh"
                /\ lookups'[t] = 1
                /\ refreshes'[t] = 1]_vars

\* C4: a request whose kid is unknown and whose refresh was rate-limited has
\* ended with Unauthenticated and without a GET.
C4_Witness ==
    \E t \in Tasks :
        /\ pc[t] = "done"
        /\ rres[t] = "limited"
        /\ result[t] = "401_kid"
        /\ gets[t] = 0
        /\ lookups[t] = 2

\* C5 as stated: the first request that presents the kid of a key the origin
\* serves finds the key, whatever the time since the last refresh: no such
\* request is rejected for its kid after a rate-limited refresh.
C5_FirstRequestFinds ==
    \A t \in Tasks :
        (pc[t] = "done" /\ rres[t] = "limited" /\ result[t] = "401_kid")
            => kid[t] \notin origin

\* C5: a request that misses at least 4 h after last_refresh sends the GET,
\* and when its refresh completes with a document that holds its kid the
\* second lookup finds the key; a request that misses earlier sends no GET
\* and leaves the cache as it is.
C5_UsableAfterRefresh ==
    [][\A t \in Tasks :
          /\ (StepOf(t, "refresh") /\ clock - last_refresh >= RefreshHours)
                => pc'[t] = "fetch"
          /\ (StepOf(t, "refresh") /\ clock - last_refresh < RefreshHours)
                => pc'[t] = "lookup2" /\ cache' = cache
          /\ (StepOf(t, "lookup2") /\ rres[t] = "applied"
                  /\ kid[t] \in DocKids(fetched[t]))
                => cache[kid[t]] # NoKey /\ result'[t] # "401_kid"]_vars

\* C5: a request missed, refreshed, found its key in the fetched document
\* and was accepted.
C5_Witness ==
    \E t \in Tasks :
        /\ pc[t] = "done"
        /\ rres[t] = "applied"
        /\ gets[t] = 1
        /\ result[t] = "accepted"
        /\ cache[kid[t]] = clock

\* C6: a refresh whose document holds an entry that does not convert skips
\* that entry only: it inserts every entry that converts and goes on to
\* store last_refresh.
C6_SkipsBadEntry ==
    [][\A t \in Tasks :
          StepOf(t, "apply") =>
              /\ pc'[t] = "store"
              /\ \A i \in 1..Len(fetched[t]) :
                    TryFromOk(fetched[t][i]) => cache'[fetched[t][i].kid] = clock]_vars

\* C7: a GET that fails, or a body that does not parse, ends refresh with an
\* error and leaves the cache map and last_refresh as they were.
C7_FetchErrorKeepsCache ==
    [][\A t \in Tasks :
          (pc[t] = "fetch" /\ pc'[t] = "done") =>
              /\ rres'[t] = "err_fetch"
              /\ result'[t] = "500_refresh"
              /\ cache' = cache
              /\ last_refresh' = last_refresh]_vars

\* C7: a fetch failed while the cache held an entry.
C7_Witness ==
    \E t \in Tasks :
        /\ pc[t] = "done"
        /\ rres[t] = "err_fetch"
        /\ \E k \in Kids : cache[k] # NoKey

\* C8: when a refresh with `now` = t completes, no entry has
\* retrieved < t - 24 h and every kid of the fetched document is present
\* with retrieved >= t.
C8_AfterRefresh ==
    [][\A t \in Tasks :
          StepOf(t, "store") =>
              /\ last_refresh' = now[t]
              /\ \A k \in Kids :
                    cache'[k] # NoKey => ~(cache'[k] < now[t] - RetainHours)
              /\ \A k \in DocKids(fetched[t]) :
                    cache'[k] # NoKey /\ cache'[k] >= now[t]]_vars

\* C8: a refresh taken 24 h or more after the first instant is about to
\* complete; it fetched one key and the other key is gone from the cache.
C8_Witness ==
    \E t \in Tasks :
        /\ pc[t] = "store"
        /\ now[t] - RetainHours >= UNIX_EPOCH + RefreshHours
        /\ \E k1, k2 \in Kids :
              /\ k1 \in DocKids(fetched[t])
              /\ k2 \notin DocKids(fetched[t])
              /\ cache[k2] = NoKey

\* C9: the checks stop at the first failure, in the order header, parse,
\* kid, signature, expiry, revocation.  A request rejected for its header or
\* its token text has made no lookup, no refresh and no GET; a request
\* rejected for its kid, its signature or its expiry, or failed by refresh or
\* verify, has sent no revocation GET; a revocation GET is only in flight
\* for a kid that is cached.
C9_ShortCircuit ==
    /\ \A t \in Tasks :
          (pc[t] = "done" /\ result[t] \in {"401_header", "401_parse"}) =>
              /\ lookups[t] = 0
              /\ refreshes[t] = 0
              /\ gets[t] = 0
              /\ ~revGet[t]
    /\ \A t \in Tasks :
          (pc[t] = "done" /\ result[t] \in {"401_kid", "401_sig", "401_expired",
                                            "500_verify", "500_refresh"}) =>
              ~revGet[t]
    /\ \A t \in Tasks :
          (pc[t] = "done" /\ result[t] \in {"401_revoked", "500_revocation",
                                            "accepted"}) =>
              revGet[t] /\ lookups[t] = 2
    /\ \A t \in Tasks :
          pc[t] = "revoke" => revGet[t] /\ cache[kid[t]] # NoKey
    /\ \A sig \in {"good", "bad", "err"}, expired \in BOOLEAN :
          /\ CheckToken(FALSE, sig, expired) = "401_kid"
          /\ CheckToken(TRUE, "bad", expired) = "401_sig"
    /\ \A h \in HeaderValues :
          ~StartsWithBearer(h) => CheckHeader(h) = "401_header"

\* C9: an expired token was rejected after two lookups and before any
\* revocation GET.
C9_Witness ==
    \E t \in Tasks :
        /\ pc[t] = "done"
        /\ result[t] = "401_expired"
        /\ lookups[t] = 2
        /\ ~revGet[t]

C11_RevocationOutcome ==
    \A t \in Tasks :
        (pc[t] = "done" /\ revGet[t]) =>
            /\ sigRes[t] = "good"
            /\ revStatus[t] \in RevocationStatuses
            /\ (revStatus[t] = "404") <=> (result[t] = "accepted")
            /\ (revStatus[t] = "200") <=> (result[t] = "401_revoked")
            /\ (revStatus[t] \notin {"404", "200"}) <=> (result[t] = "500_revocation")

\* C11: a request was failed by a status that is neither 200 nor 404.
C11_Witness ==
    \E t \in Tasks :
        /\ pc[t] = "done"
        /\ revStatus[t] = "503"
        /\ result[t] = "500_revocation"

\* C12: a request is accepted only in the step that receives 404 for its own
\* revocation GET, sent in the same request; once the endpoint holds the
\* tid, and so answers 200, no request is accepted.
C12_RevocationUncached ==
    [][\A t \in Tasks :
          (pc[t] # "done" /\ pc'[t] = "done" /\ result'[t] = "accepted") =>
              /\ pc[t] = "revoke"
              /\ revGet[t]
              /\ revStatus'[t] = "404"
              /\ ~revoked]_vars

\* C12: after the tid was revoked a request was answered 200 and rejected,
\* while another request waits for the answer to its own GET.
C12_Witness ==
    \E t1, t2 \in Tasks :
        /\ revoked
        /\ pc[t1] = "done"
        /\ result[t1] = "401_revoked"
        /\ revStatus[t1] = "200"
        /\ pc[t2] = "revoke"

\* C13: a signature that verify rejects is a 401, and a verify, a refresh or
\* a revocation request that fails to run is a 500, never the other way round.
C13_OutcomesApart ==
    \A t \in Tasks :
        pc[t] = "done" =>
            /\ sigRes[t] = "bad" => result[t] = "401_sig" /\ HttpStatus(result[t]) = 401
            /\ sigRes[t] = "err" => result[t] = "500_verify" /\ HttpStatus(result[t]) = 500
            /\ rres[t] \in {"err_fetch", "err_jwk"} =>
                  result[t] = "500_refresh" /\ HttpStatus(result[t]) = 500
            /\ revStatus[t] \in {"503", "error"} =>
                  result[t] = "500_revocation" /\ HttpStatus(result[t]) = 500
            /\ result[t] = "401_sig" => sigRes[t] = "bad"
            /\ result[t] = "500_verify" => sigRes[t] = "err"

\* C13: a verify that failed to run ended a request with a 500.
C13_Witness ==
    \E t \in Tasks :
        /\ pc[t] = "done"
        /\ sigRes[t] = "err"
        /\ result[t] = "500_verify"

\* The header values that are the bearer scheme in some letter case, one
\* space and a token that is not empty.
BearerAnyCase == {"Bearer jws", "bearer junk", "bearer jws"}

\* C19: a request whose Authorization header is the bearer scheme in any
\* letter case, one space and a token is not rejected for its header: it
\* reaches the parse of the token.
C19_BearerAnyCase ==
    \A t \in Tasks :
        (pc[t] = "done" /\ hdr[t] \in BearerAnyCase) => result[t] # "401_header"

----------------------------------------------------------------------------
(* Properties of verify, is_valid and the optional extractor *)

\* A call of VerifyingJsonWebKey::verify or of Algorithm::verify has returned.
VerifyReturned == input.fn \in {"verify", "alg_verify"} /\ output.res # "none"

\* A call of VerifyingJsonWebKey::verify has returned.
KeyVerifyReturned == input.fn = "verify" /\ output.res # "none"

\* The number of '.' characters of the token of the call.
Dots == Len(input.token) - 1

\* The text after the last '.' of the token, and the text before it.
LastSegment == input.token[Len(input.token)]
Contents == SubSeq(input.token, 1, Len(input.token) - 1)

\* The token has a '.', and the text after the last one is base64url of
\* bytes that are not the signature of the text before it under the key.
SignatureDoesNotVerify ==
    /\ Dots >= 1
    /\ LastSegment.enc = "b64"
    /\ LastSegment # SignatureText(input.key, Contents)

\* C14, as stated: verify returns Ok(None), never an error, for every token
\* whose signature segment is valid base64url but does not verify, whatever
\* the header and the claims are.
C14_AlwaysNone ==
    (KeyVerifyReturned /\ SignatureDoesNotVerify) => output.res = "None"

\* C14, amended: for every token whose signature segment is valid base64url
\* but does not verify, verify returns Ok(None), or VerifierOperation when
\* verify_oneshot itself fails on bytes that are no signature; header and
\* claims are not decoded, so no DecodeHeader, DecodeClaims or InvalidFormat
\* is returned.
C14_VerifyBeforeDecode ==
    (KeyVerifyReturned /\ SignatureDoesNotVerify) =>
        /\ output.res \in {"None", "VerifierOperation"}
        /\ (output.res = "VerifierOperation") <=>
               (LastSegment.kind # "sig" /\ input.malformed = "err")

\* C14 happens: a token whose header is no base64url and whose signature is
\* by another key gets Ok(None) from VerifyingJsonWebKey::verify.
C14_Witness ==
    /\ input.fn = "verify"
    /\ Dots = 2
    /\ input.token[1] = RawText
    /\ LastSegment.kind = "sig"
    /\ LastSegment.key # input.key
    /\ output.res = "None"

\* C15, as stated: every token whose number of '.' characters is not two
\* gets InvalidFormat.
C15_InvalidFormat ==
    (VerifyReturned /\ Dots # 2) => output.res = "InvalidFormat"

\* C15, amended: verify never returns a token unless the input has exactly
\* two '.' characters.  With no '.' it returns InvalidFormat; with one it
\* returns InvalidFormat only after the signature has verified; with three
\* or more it never returns InvalidFormat but Ok(None) or another error.
C15_NoTokenUnlessTwoDots ==
    VerifyReturned =>
        /\ (Dots # 2) => output.res # "Some"
        /\ (Dots = 0) => output.res = "InvalidFormat"
        /\ (Dots = 1 /\ output.res = "InvalidFormat") =>
               LastSegment = SignatureText(input.key, Contents)
        /\ (Dots >= 3) => output.res # "InvalidFormat"

\* C15 happens: a token with three '.' characters, a header that decodes, a
\* claims segment at its end and a signature that verifies gets DecodeClaims.
C15_Witness ==
    /\ input.fn = "verify"
    /\ Dots = 3
    /\ input.token[1] = HeaderES256
    /\ input.token[3] = ClaimsText
    /\ LastSegment = SignatureText(input.key, Contents)
    /\ output.res = "DecodeClaims"

\* The token is header.claims.signature with decodable claims, a signature
\* that verifies under the key, and a header naming an algorithm other than
\* the key's (every key's alg is ES256, the one variant of Algorithm).
SignedWithOtherAlg ==
    /\ Dots = 2
    /\ input.token[1] = HeaderOther
    /\ input.token[2] = ClaimsText
    /\ LastSegment = SignatureText(input.key, Contents)

\* C16, as stated: a correctly signed token whose header names a different
\* algorithm is reported as AlgorithmMismatch.
C16_AlgorithmMismatch ==
    (KeyVerifyReturned /\ SignedWithOtherAlg) => output.res = "AlgorithmMismatch"

\* C16, amended: verify returns Some(token) only if header.alg is the
\* algorithm of the verifying key; a correctly signed token whose header
\* names a different algorithm is reported as DecodeHeader.
C16_OnlyKeyAlgorithm ==
    KeyVerifyReturned =>
        /\ (output.res = "Some") =>
               (output.header = "hdrES256" /\ input.token[1] = HeaderES256)
        /\ SignedWithOtherAlg => output.res = "DecodeHeader"

\* C16 happens: a correctly signed token with another alg is turned down.
C16_Witness ==
    /\ input.fn = "verify"
    /\ SignedWithOtherAlg
    /\ output.res = "DecodeHeader"

\* C17: signing a token and verifying header.claims.signature with the key
\* of the same JWK returns Some(token) with the claims that were signed.
C17_RoundTrip ==
    (input.fn = "roundtrip" /\ output.res # "none") =>
        /\ output.res = "Some"
        /\ output.header = input.header
        /\ output.claims = input.claims

\* C18: Claims::is_valid evaluates in the order Expired, Premature,
\* Untrusted, WrongAudience, Valid with no leeway: Expired iff exp < now;
\* otherwise Premature iff nbf > now; otherwise Untrusted iff iss is not a
\* trusted issuer; otherwise WrongAudience iff aud is not the audience;
\* otherwise Valid.
C18_IsValidOrder ==
    (input.fn = "is_valid" /\ output.res # "none") =>
        LET expired == input.exp < input.now
            premature == input.nbf > input.now
            untrusted == input.iss \notin input.trusted
            wrong == input.aud # input.audience
        IN  /\ (output.res = "Expired") <=> expired
            /\ (output.res = "Premature") <=> (~expired /\ premature)
            /\ (output.res = "Untrusted") <=>
                   (~expired /\ ~premature /\ untrusted)
            /\ (output.res = "WrongAudience") <=>
                   (~expired /\ ~premature /\ ~untrusted /\ wrong)
            /\ (output.res = "Valid") <=>
                   (~expired /\ ~premature /\ ~untrusted /\ ~wrong)

\* C18 happens: claims with exp = now and nbf = now are Valid.
C18_Witness ==
    /\ input.fn = "is_valid"
    /\ input.exp = input.now
    /\ input.nbf = input.now
    /\ output.res = "Valid"

\* C20: the optional extractor returns Ok(None) iff the request has no
\* Authorization header; with the header its result is the mandatory
\* extractor's: Ok(token) wrapped in Some, every rejection unchanged.
C20_OptionalIsMandatory ==
    (input.fn = "optional" /\ output.res # "none") =>
        /\ (output.res = "ok_none") <=> (input.header = "none")
        /\ (input.header # "none" /\ input.mandatory = "accepted") =>
               output.res = "ok_some"
        /\ (input.header # "none" /\ input.mandatory # "accepted") =>
               output.res = input.mandatory

\* C20 happens: with a header whose token is revoked the optional extractor
\* returns the rejection of the mandatory one.
C20_Witness ==
    /\ input.fn = "optional"
    /\ input.header = "bearer jws"
    /\ input.mandatory = "401_revoked"
    /\ output.res = "401_revoked"

\* C21, as stated: every ErrorResponse with status 401 or 500 has an empty
\* problems list; only 400 and 422 responses carry problems.
C21_EmptyProblems ==
    (input.fn = "error_response" /\ output.res = "response") =>
        /\ (output.response.status \in {401, 500}) =>
               output.response.problems = << >>
        /\ (output.response.problems # << >>) =>
               output.response.status \in {400, 422}

\* C21, amended: every ErrorResponse with status 500 has an empty problems
\* list; every one with status 401 carries the same single problem, the
\* detail "This request requires authentication" without a pointer, whatever
\* the request was; the responses that carry problems have status 400, 401,
\* 404, 413, 415 or 422.
C21_NoOracle ==
    (input.fn = "error_response" /\ output.res = "response") =>
        /\ (output.response.status = 500) => output.response.problems = << >>
        /\ (output.response.status = 401) =>
               output.response.problems =
                   <<ProblemDetail("This request requires authentication")>>
        /\ (output.response.problems # << >>) =>
               output.response.status \in {400, 401, 404, 413, 415, 422}

\* C21 happens: unauthenticated() has returned its response.
C21_Witness ==
    /\ input.fn = "error_response"
    /\ input.ctor = "unauthenticated"
    /\ output.res = "response"
    /\ output.response.status = 401
    /\ Len(output.response.problems) = 1

----------------------------------------------------------------------------
(* Properties of PublicKeyCredential::verify *)

\* A call of verify_assertion, of verify_attestation, is under way or has
\* returned.
AssertionCalled == cer.pc # "idle" /\ cer.cred.kind = "assertion"
AttestationCalled == cer.pc # "idle" /\ cer.cred.kind = "attestation"

\* The call has returned.
WebReturned == cer.pc = "done"

\* C22: an assertion whose relying_party_id_hash is not the SHA-256 of the
\* relying party id is rejected with Ok(false), whatever its challenge, key
\* and signature are, before the challenge store or the public key store is
\* queried.
C22_RelyingPartyFirst ==
    (AssertionCalled /\ cer.cred.rp_hash # Sha256(RelyingPartyId)) =>
        /\ WebReturned
        /\ cer.result = "false"
        /\ queried = {}

\* C22 happens: a webauthn.get assertion for another relying party, with a
\* stored challenge and a stored key, has been rejected.
C22_Witness ==
    /\ AssertionCalled
    /\ cer.cred.type = "webauthn.get"
    /\ cer.cred.rp_hash = Sha256("other.example")
    /\ challenges[cer.cred.challenge].found
    /\ keys[cer.cred.raw_id].found
    /\ cer.cred.signature.form = "sig"
    /\ WebReturned
    /\ cer.result = "false"

\* The challenge and the key the stores hold for the credential of the call.
StoredChallenge == challenges[cer.cred.challenge]
StoredKey == keys[cer.cred.raw_id]

\* The challenge exists, is valid now, and was issued to the origin of the
\* client data.
ChallengeFits ==
    /\ StoredChallenge.found
    /\ StoredChallenge.issued < clock
    /\ clock < StoredChallenge.expires
    /\ StoredChallenge.origin = cer.cred.origin

\* The identity the challenge is bound to, if any, is the user handle, if any.
HandleFitsChallenge ==
    (StoredChallenge.identity_id # "none" /\ cer.cred.user_handle # "none") =>
        StoredChallenge.identity_id = cer.cred.user_handle

\* A key is persisted for raw_id, for the identity of the user handle, if any.
KeyFits ==
    /\ StoredKey.found
    /\ (cer.cred.user_handle # "none") =>
           StoredKey.identity_id = cer.cred.user_handle

\* Everything C23 lists.
AssertionRequirements == ChallengeFits /\ HandleFitsChallenge /\ KeyFits

\* C23, as stated: verify_assertion returns Ok(true) only if the challenge
\* exists, is valid, has the origin of the client data, is bound to the user
\* handle if bound and present, a key is persisted for raw_id, and its
\* identity is the user handle if present; if any one fails the result is
\* Ok(false).
C23_FailsAsFalse ==
    (AssertionCalled /\ WebReturned) =>
        /\ (cer.result = "true") => AssertionRequirements
        /\ ~AssertionRequirements => cer.result = "false"

\* C23, amended: verify_assertion returns Ok(true) only if all of that holds;
\* if any one fails the result is Ok(false), or the error of a store whose
\* query failed before the failing check.
C23_TrueOnlyIf ==
    (AssertionCalled /\ WebReturned) =>
        /\ (cer.result = "true") => AssertionRequirements
        /\ ~AssertionRequirements =>
               cer.result \in {"false", "Err_GetChallenge", "Err_GetPublicKey"}
        /\ (~ChallengeFits \/ ~HandleFitsChallenge) =>
               cer.result \in {"false", "Err_GetChallenge"}

\* C23 happens: a challenge stored for https://a.example, presented with the
\* origin https://b.example by the right relying party, gets Ok(false).
C23_Witness ==
    /\ AssertionCalled
    /\ WebReturned
    /\ StoredChallenge.found
    /\ StoredChallenge.origin = "https://a.example"
    /\ cer.cred.origin = "https://b.example"
    /\ "challenge" \in queried
    /\ cer.result = "false"

\* The signature of the credential is by the persisted key over the
\* authenticator data and the hash of the client data as received.
SignatureFits ==
    /\ StoredKey.found
    /\ StoredKey.public_key = "spki_k1"
    /\ cer.cred.signature =
           SignatureBy("k1",
                       Message(cer.cred.rp_hash,
                               Sha256(ClientDataBytes(cer.cred.type,
                                                      cer.cred.challenge,
                                                      cer.cred.origin,
                                                      cer.cred.enc))))

\* Steps 1 to 6 of the get ceremony.
CeremonySteps ==
    /\ cer.cred.type = "webauthn.get"
    /\ cer.cred.rp_hash = Sha256(RelyingPartyId)
    /\ AssertionRequirements
    /\ SignatureFits

\* C24: verify_assertion returns Ok(true) for every assertion that satisfies
\* steps 1 to 6 of the ceremony, whatever bearer the caller passes; a failing
\* store apart.
C24_AnyBearer ==
    (AssertionCalled /\ WebReturned /\ CeremonySteps) =>
        cer.result \in {"true", "Err_GetChallenge", "Err_GetPublicKey"}

\* The client data bytes as the call received them.
ReceivedClientData ==
    ClientDataBytes(cer.cred.type, cer.cred.challenge, cer.cred.origin,
                    cer.cred.enc)

\* C25: the signed message of an assertion is authenticator_data.raw followed
\* by the SHA-256 of client_data_json.raw as received: an assertion verifies
\* only if its signature is over those bytes, so a clientDataJSON that was
\* encoded anew, equal in its fields and different in its bytes, fails.
C25_RawBytesSigned ==
    (AssertionCalled /\ WebReturned /\ cer.result = "true") =>
        /\ cer.cred.signature.form = "sig"
        /\ cer.cred.signature.over =
               Message(cer.cred.rp_hash, Sha256(ReceivedClientData))

\* C25 happens: an assertion that meets every requirement, but whose
\* signature was made over the other encoding of the same fields, gets
\* Ok(false) from the signature check.
C25_Witness ==
    /\ AssertionCalled
    /\ WebReturned
    /\ "public_key" \in queried
    /\ StoredKey.found
    /\ StoredKey.public_key = "spki_k1"
    /\ cer.cred.signature.form = "sig"
    /\ cer.cred.signature.by = "k1"
    /\ cer.cred.signature.over.hash.sha256.enc # cer.cred.enc
    /\ cer.cred.signature.over.hash.sha256.origin = cer.cred.origin
    /\ KeyFits
    /\ cer.result = "false"

\* An assertion has been accepted.
AssertionAccepted == AssertionCalled /\ WebReturned /\ cer.result = "true"

\* The challenge of an attestation exists, is valid now, was issued to the
\* origin of the client data, and is bound to the bearer.
ChallengeFitsBearer ==
    /\ ChallengeFits
    /\ StoredChallenge.identity_id # "none"
    /\ StoredChallenge.identity_id = cer.bearer

\* The public key of an attestation parses and is of the family that
\* Algorithm::id gives for the declared algorithm.
DeclaredKeyFits ==
    /\ PKeyId(cer.cred.public_key) # "error"
    /\ PKeyId(cer.cred.public_key) = AlgorithmId(cer.cred.alg)

\* Everything C26 lists.
AttestationRequirements ==
    /\ cer.cred.type = "webauthn.create"
    /\ cer.bearer # "none"
    /\ ChallengeFitsBearer
    /\ DeclaredKeyFits

\* C26, as stated: verify_attestation returns Ok(true) if and only if the
\* type is webauthn.create, a bearer is supplied, the challenge exists, is
\* valid, has the origin of the client data and the identity of the bearer,
\* the public key parses and is of the family of the declared algorithm;
\* each failing condition yields Ok(false), never an error.
C26_NeverAnError ==
    (AttestationCalled /\ WebReturned) =>
        /\ (cer.result = "true") <=> AttestationRequirements
        /\ ~AttestationRequirements => cer.result = "false"

\* C26, amended: when the challenge store answers, verify_attestation returns
\* Ok(true) if and only if all of that holds, and Ok(false) otherwise; when
\* get_challenge fails, which only a webauthn.create attestation with a
\* bearer can meet, it returns the error GetChallenge.
C26_TrueIff ==
    (AttestationCalled /\ WebReturned) =>
        /\ cer.result \in {"true", "false", "Err_GetChallenge"}
        /\ (cer.result = "true") => AttestationRequirements
        /\ (cer.result = "false") => ~AttestationRequirements
        /\ (cer.result = "Err_GetChallenge") =>
               (cer.cred.type = "webauthn.create" /\ cer.bearer # "none")

\* C26 happens: an attestation that declares ES256 and carries an RSA key,
\* with a fitting challenge, gets Ok(false).
C26_Witness ==
    /\ AttestationCalled
    /\ WebReturned
    /\ cer.cred.type = "webauthn.create"
    /\ ChallengeFitsBearer
    /\ cer.cred.alg = "ES256"
    /\ cer.cred.public_key = "spki_rsa"
    /\ cer.result = "false"

\* C27: a challenge is consumed at most once: no verification succeeds with
\* a challenge that an earlier verification has succeeded with.
C27_ConsumedOnce ==
    [][(cer.pc # "done" /\ cer'.pc = "done" /\ cer'.result = "true") =>
           cer'.cred.challenge \notin consumed]_vars

\* The call has come to the persisted key: the key store has answered with
\* a key of the identity of the user handle.
KeyReached ==
    /\ AssertionCalled
    /\ WebReturned
    /\ "public_key" \in queried
    /\ cer.result # "Err_GetPublicKey"
    /\ KeyFits

KeyFamilies == {"ED448", "ED25519", "EC", "RSA_PSS", "RSA"}

\* C30: Algorithm::id maps every recognised algorithm to one of the five key
\* families, so that for the algorithm an attestation declares there is a key
\* of its family that passes the key/algorithm check.
C30_FiveFamilies ==
    AttestationCalled =>
        /\ AlgorithmId(cer.cred.alg) \in KeyFamilies
        /\ \E pk \in PublicKeys :
              /\ PKeyId(pk) \in KeyFamilies
              /\ AttestationKeyChecks([cer.cred EXCEPT !.public_key = pk]) = "true"

\* The task holds the exclusive lock of the map after it has inserted keys
\* that are newer than last_refresh.
MapUpdatedBy(t) ==
    /\ pc[t] = "store"
    /\ \E k \in Kids : cache[k] # NoKey /\ cache[k] > last_refresh

\* C29: cancelling a request writes no partial state: a request that has
\* updated the shared map goes on to set last_refresh, so that the map is
\* never updated without last_refresh.
C29_NoPartialState ==
    [][\A t \in Tasks :
          (MapUpdatedBy(t) /\ pc'[t] # "store") => last_refresh' = now[t]]_vars


\* C31: an Algorithm is identified by its COSE id in both directions:
\* try_from(a as i32) is Ok(a) for each recognised algorithm a, and try_from
\* succeeds only on the COSE id of a recognised algorithm.
C31_CoseIdBothWays ==
    (input.fn = "try_from" /\ output.res # "none") =>
        /\ \A a \in Algorithms :
              input.value = CoseId(a) => output = [res |-> "Ok", alg |-> a]
        /\ output.res = "Ok" => \E a \in Algorithms : input.value = CoseId(a)


\* Four bytes read as a big-endian u32: the first byte is the most significant.
FromBeBytes(b) == 16777216 * b[1] + 65536 * b[2] + 256 * b[3] + b[4]

\* C32: decoding authenticator data rejects fewer than 37 bytes and otherwise
\* yields the hash = bytes 0..32, the flags = byte 32, the signature counter
\* = bytes 33..37 read as a big-endian u32, and raw = the whole input.
C32_BigEndianCounter ==
    (input.fn = "authenticator_data" /\ input.decodes /\ output.res # "none") =>
        IF Len(input.bytes) < 37 THEN output.res = "Err"
        ELSE /\ output.res = "Ok"
             /\ output.relying_party_id_hash = SubSeq(input.bytes, 1, 32)
             /\ output.flags = input.bytes[33]
             /\ output.signature_counter = FromBeBytes(SubSeq(input.bytes, 34, 37))
             /\ output.raw = input.bytes


\* C33 as stated: Challenge::is_valid returns true exactly when the current
\* time lies in the closed interval [issued, expires], the instants
\* now = issued and now = expires included.
C33_ClosedInterval ==
    (input.fn = "challenge_is_valid" /\ output.res # "none") =>
        (output.res = "true" <=>
            (input.issued <= input.now /\ input.now <= input.expires))

\* C33 amended: Challenge::is_valid returns true exactly when the current
\* time lies strictly between issued and expires; at now = issued and at
\* now = expires it returns false.
C33_OpenInterval ==
    (input.fn = "challenge_is_valid" /\ output.res # "none") =>
        (output.res = "true" <=>
            (input.issued < input.now /\ input.now < input.expires))

\* C33: is_valid was asked at the instant the challenge expires and said no.
C33_Witness ==
    /\ input.fn = "challenge_is_valid"
    /\ input.issued < input.now
    /\ input.now = input.expires
    /\ output.res = "false"


\* ttl(Common) = 30 days, ttl(Consent) = 5 minutes, ttl(Provisioning) = 4
\* hours, in seconds.
Ttl(typ) ==
    CASE typ = "Common" -> 30 * 86400
      [] typ = "Consent" -> 5 * 60
      [] typ = "Provisioning" -> 4 * 3600

\* C34: every token issue returns has the header {alg: jwk.alg, typ: "JWT",
\* kid: jwk.kid} and claims with exp - iat exactly equal to ttl(typ).
C34_ExactTtl ==
    (input.fn = "issue" /\ output.res = "Ok") =>
        /\ output.token.header = [alg |-> "ES256", typ |-> "JWT", kid |-> input.key]
        /\ output.token.claims.exp - output.token.claims.iat = Ttl(input.typ)


\* The ttl of a call of encode, in milliseconds.
EncodeTtl ==
    IF input.fn = "encode" THEN 1000 * input.expires_in_seconds
    ELSE IF input.custom_duration.some THEN 1000 * input.custom_duration.secs
    ELSE 1000 * input.valid_for

\* C35: every token JwtEncoder::encode produces has nbf equal to iat and
\* exp = iat + ttl; no token is issued with nbf earlier than iat.
C35_NbfIsIat ==
    (input.fn \in {"encode", "encode_old"} /\ output.res = "Ok") =>
        /\ output.claims.nbf = output.claims.iat
        /\ output.claims.exp = output.claims.iat + EncodeTtl


\* C36 as stated: Header::decode(h.encode()) equals h, and
\* Claims::decode(c.encode()) equals c field for field, also when the
\* timestamps of c are not whole milliseconds.
C36_RoundTrip ==
    /\ (input.fn = "header_roundtrip" /\ output.res # "none") =>
            output = [res |-> "Ok", value |-> input.header]
    /\ (input.fn = "claims_roundtrip" /\ output.res # "none") =>
            output = [res |-> "Ok", value |-> input.claims]

\* A timestamp cut to the millisecond.
WholeMsec(t) == [ms |-> t.ms, nanos |-> 0]

\* C36 amended: a header round-trips exactly; claims round-trip with exp, iat
\* and nbf cut to the millisecond and the other fields unchanged, so the
\* round trip is exact just when the three timestamps are whole milliseconds.
C36_RoundTripToMsec ==
    /\ (input.fn = "header_roundtrip" /\ output.res # "none") =>
            output = [res |-> "Ok", value |-> input.header]
    /\ (input.fn = "claims_roundtrip" /\ output.res # "none") =>
            /\ output.res = "Ok"
            /\ output.value =
                  [input.claims EXCEPT !.exp = WholeMsec(@), !.iat = WholeMsec(@),
                                       !.nbf = WholeMsec(@)]
            /\ (output.value = input.claims) <=>
                  (\A f \in {"exp", "iat", "nbf"} : input.claims[f].nanos = 0)

\* C36: claims whose iat is not a whole millisecond were encoded and decoded.
C36_Witness ==
    /\ input.fn = "claims_roundtrip"
    /\ input.claims.iat.nanos # 0
    /\ output.res = "Ok"
    /\ output.value # input.claims


\* The request carries the configured header and the value HeaderMap::get
\* yields is, as a string, a member of allowed_api_keys.
ValueIsAllowed ==
    /\ input.headers # << >>
    /\ input.headers[1].visible
    /\ input.headers[1].text \in input.allowed_api_keys

\* C37: the ApiKey extractor accepts a request iff the configured header is
\* present and its value equals, case-sensitively and in full, a member of
\* allowed_api_keys; a missing header or a non-member value is
\* Unauthenticated; the optional variant returns Ok(None) only when the
\* header is missing.
C37_AllowListOnly ==
    /\ (input.fn = "api_key" /\ output.res # "none") =>
            /\ output.res = "Ok" <=> ValueIsAllowed
            /\ output.res = "Ok" => output.key = input.headers[1].text
            /\ output.res # "Ok" =>
                  /\ output.res = "Err"
                  /\ output.response.status = 401
    /\ (input.fn = "optional_api_key" /\ output.res # "none") =>
            /\ output.res = "OkNone" <=> input.headers = << >>
            /\ output.res = "OkSome" <=> ValueIsAllowed
            /\ output.res \notin {"OkNone", "OkSome"} =>
                  /\ output.res = "Err"
                  /\ output.response.status = 401

\* C37: a request whose header is an allowed key in another case was
\* rejected, and one with a header not on the list was rejected by the
\* optional variant too.
C37_Witness ==
    /\ input.fn \in {"api_key", "optional_api_key"}
    /\ input.headers # << >>
    /\ input.headers[1].text = "KEYA"
    /\ "keyA" \in input.allowed_api_keys
    /\ output.res = "Err"


\* A task whose GET is in flight: the JWKS GET of refresh or the revocation
\* GET of the extractor.
OnNetwork(t) == pc[t] \in {"fetch", "revoke"}

\* C38: no task is suspended on a network request while it holds a shared or
\* the exclusive lock on the cache map, so a refresh writer never waits for
\* an in-flight revocation request.
C38_NoLockOverNetwork ==
    /\ \A t \in Tasks : OnNetwork(t) => (t \notin readers /\ writer # t)
    /\ \A t, u \in Tasks :
          ~(pc[u] = "apply" /\ pc[t] = "revoke" /\ t \in readers)


\* A task that has begun and has not returned.
Unfinished(t) == position[t].pc \notin {"idle", "done"}

\* A task that waits for a lock it cannot be granted now.
BlockedOnLock(t) ==
    \/ position[t].pc \in {"read1", "write", "read2"} /\ ~CanAcquire(cacheLock, t)
    \/ position[t].pc \in {"guard", "store"} /\ ~CanAcquire(lastRefreshLock, t)

\* Some unfinished task is not blocked on a lock.
NotAllBlocked ==
    (\E t \in LockTasks : Unfinished(t)) =>
        \E t \in LockTasks : Unfinished(t) /\ ~BlockedOnLock(t)

C40_NeverDecreases ==
    [][/\ last_refresh' >= last_refresh
       /\ last_refresh' # last_refresh =>
             \E t \in Tasks : /\ StepOf(t, "store")
                              /\ writer = t
                              /\ last_refresh' = now[t]]_vars

=============================================================================
